---- MODULE Spec2Model ----
(***************************************************************************)
(* Task/recording progression engine of voice-seed-vault:                  *)
(*   - the recordings AFTER INSERT triggers and update_user_progress()     *)
(*     (supabase/migrations),                                              *)
(*   - the generate-task edge function (supabase/functions/generate-task). *)
(* Tables are modelled as TLA+ values; every await of the edge function    *)
(* that touches the database or the network is one atomic step.            *)
(***************************************************************************)
EXTENDS Integers, Sequences, FiniteSets, TLC

\* ---------------------------------------------------------------- bounds
MaxOpenStarters == 2
MaxRequests == 2
MaxInFlight == 1
PoolSize == 1
MaxDifficulty == 1

\* ------------------------------------------------------ program constants
StarterCount == 20
UnlockThreshold == 2

\* the users who act, and a user whose rows are in the tables but who
\* does nothing
Users == {"u1"}
OtherUser == "u0"
AllUsers == Users \cup {OtherUser}

SeedLangId == "L1"
NewLangId == "L2"
LangIds == {SeedLangId, NewLangId}

NULL == 0

\* ------------------------------------------------------------------ texts
\* A text is held in the tables as a string; Chars spells every string of
\* the model, one one-character string per character, for the functions
\* that look inside a text.
Chars ==
  "Hello" :> <<"H", "e", "l", "l", "o">> @@
  "Thank you" :> <<"T", "h", "a", "n", "k", " ", "y", "o", "u">> @@
  "Please" :> <<"P", "l", "e", "a", "s", "e">> @@
  "Goodbye" :> <<"G", "o", "o", "d", "b", "y", "e">> @@
  "Yes" :> <<"Y", "e", "s">> @@
  "No" :> <<"N", "o">> @@
  "Water" :> <<"W", "a", "t", "e", "r">> @@
  "Food" :> <<"F", "o", "o", "d">> @@
  "Home" :> <<"H", "o", "m", "e">> @@
  "Family" :> <<"F", "a", "m", "i", "l", "y">> @@
  "How are you?" :> <<"H", "o", "w", " ", "a", "r", "e", " ", "y", "o", "u", "?">> @@
  "What is your name?" :> <<"W", "h", "a", "t", " ", "i", "s", " ", "y", "o", "u", "r", " ", "n", "a", "m", "e", "?">> @@
  "I am fine" :> <<"I", " ", "a", "m", " ", "f", "i", "n", "e">> @@
  "Nice to meet you" :> <<"N", "i", "c", "e", " ", "t", "o", " ", "m", "e", "e", "t", " ", "y", "o", "u">> @@
  "See you later" :> <<"S", "e", "e", " ", "y", "o", "u", " ", "l", "a", "t", "e", "r">> @@
  "My name is John" :> <<"M", "y", " ", "n", "a", "m", "e", " ", "i", "s", " ", "J", "o", "h", "n">> @@
  "I live in the city" :> <<"I", " ", "l", "i", "v", "e", " ", "i", "n", " ", "t", "h", "e", " ", "c", "i", "t", "y">> @@
  "The weather is nice today" :> <<"T", "h", "e", " ", "w", "e", "a", "t", "h", "e", "r", " ", "i", "s", " ", "n", "i", "c", "e", " ", "t", "o", "d", "a", "y">> @@
  "I would like some water please" :> <<"I", " ", "w", "o", "u", "l", "d", " ", "l", "i", "k", "e", " ", "s", "o", "m", "e", " ", "w", "a", "t", "e", "r", " ", "p", "l", "e", "a", "s", "e">> @@
  "Thank you very much for your help" :> <<"T", "h", "a", "n", "k", " ", "y", "o", "u", " ", "v", "e", "r", "y", " ", "m", "u", "c", "h", " ", "f", "o", "r", " ", "y", "o", "u", "r", " ", "h", "e", "l", "p">> @@
  "water" :> <<"w", "a", "t", "e", "r">> @@
  "family" :> <<"f", "a", "m", "i", "l", "y">> @@
  "friend" :> <<"f", "r", "i", "e", "n", "d">> @@
  "market" :> <<"m", "a", "r", "k", "e", "t">> @@
  "school" :> <<"s", "c", "h", "o", "o", "l">> @@
  "village" :> <<"v", "i", "l", "l", "a", "g", "e">> @@
  "river" :> <<"r", "i", "v", "e", "r">> @@
  "house" :> <<"h", "o", "u", "s", "e">> @@
  "doctor" :> <<"d", "o", "c", "t", "o", "r">> @@
  "music" :> <<"m", "u", "s", "i", "c">> @@
  "morning" :> <<"m", "o", "r", "n", "i", "n", "g">> @@
  "evening" :> <<"e", "v", "e", "n", "i", "n", "g">> @@
  "bread" :> <<"b", "r", "e", "a", "d">> @@
  "money" :> <<"m", "o", "n", "e", "y">> @@
  "phone" :> <<"p", "h", "o", "n", "e">> @@
  "bus" :> <<"b", "u", "s">> @@
  "Please wait a moment." :> <<"P", "l", "e", "a", "s", "e", " ", "w", "a", "i", "t", " ", "a", " ", "m", "o", "m", "e", "n", "t", ".">> @@
  "Can you help me?" :> <<"C", "a", "n", " ", "y", "o", "u", " ", "h", "e", "l", "p", " ", "m", "e", "?">> @@
  "I don't understand." :> <<"I", " ", "d", "o", "n", "'", "t", " ", "u", "n", "d", "e", "r", "s", "t", "a", "n", "d", ".">> @@
  "What time is it?" :> <<"W", "h", "a", "t", " ", "t", "i", "m", "e", " ", "i", "s", " ", "i", "t", "?">> @@
  "See you tomorrow." :> <<"S", "e", "e", " ", "y", "o", "u", " ", "t", "o", "m", "o", "r", "r", "o", "w", ".">> @@
  "Where is the market?" :> <<"W", "h", "e", "r", "e", " ", "i", "s", " ", "t", "h", "e", " ", "m", "a", "r", "k", "e", "t", "?">> @@
  "I would like some water." :> <<"I", " ", "w", "o", "u", "l", "d", " ", "l", "i", "k", "e", " ", "s", "o", "m", "e", " ", "w", "a", "t", "e", "r", ".">> @@
  "I'm on my way." :> <<"I", "'", "m", " ", "o", "n", " ", "m", "y", " ", "w", "a", "y", ".">> @@
  "I need a doctor." :> <<"I", " ", "n", "e", "e", "d", " ", "a", " ", "d", "o", "c", "t", "o", "r", ".">> @@
  "Where can I buy food?" :> <<"W", "h", "e", "r", "e", " ", "c", "a", "n", " ", "I", " ", "b", "u", "y", " ", "f", "o", "o", "d", "?">> @@
  "Thank you very much." :> <<"T", "h", "a", "n", "k", " ", "y", "o", "u", " ", "v", "e", "r", "y", " ", "m", "u", "c", "h", ".">> @@
  "farm" :> <<"f", "a", "r", "m">> @@
  "clinic" :> <<"c", "l", "i", "n", "i", "c">> @@
  "bus station" :> <<"b", "u", "s", " ", "s", "t", "a", "t", "i", "o", "n">> @@
  "store" :> <<"s", "t", "o", "r", "e">> @@
  "this morning" :> <<"t", "h", "i", "s", " ", "m", "o", "r", "n", "i", "n", "g">> @@
  "this afternoon" :> <<"t", "h", "i", "s", " ", "a", "f", "t", "e", "r", "n", "o", "o", "n">> @@
  "this evening" :> <<"t", "h", "i", "s", " ", "e", "v", "e", "n", "i", "n", "g">> @@
  "tomorrow" :> <<"t", "o", "m", "o", "r", "r", "o", "w">> @@
  "next week" :> <<"n", "e", "x", "t", " ", "w", "e", "e", "k">> @@
  "I am going to the market this morning." :> <<"I", " ", "a", "m", " ", "g", "o", "i", "n", "g", " ", "t", "o", " ", "t", "h", "e", " ", "m", "a", "r", "k", "e", "t", " ", "t", "h", "i", "s", " ", "m", "o", "r", "n", "i", "n", "g", ".">> @@
  "I am going to the market this afternoon." :> <<"I", " ", "a", "m", " ", "g", "o", "i", "n", "g", " ", "t", "o", " ", "t", "h", "e", " ", "m", "a", "r", "k", "e", "t", " ", "t", "h", "i", "s", " ", "a", "f", "t", "e", "r", "n", "o", "o", "n", ".">> @@
  "I am going to the market this evening." :> <<"I", " ", "a", "m", " ", "g", "o", "i", "n", "g", " ", "t", "o", " ", "t", "h", "e", " ", "m", "a", "r", "k", "e", "t", " ", "t", "h", "i", "s", " ", "e", "v", "e", "n", "i", "n", "g", ".">> @@
  "I am going to the school this morning." :> <<"I", " ", "a", "m", " ", "g", "o", "i", "n", "g", " ", "t", "o", " ", "t", "h", "e", " ", "s", "c", "h", "o", "o", "l", " ", "t", "h", "i", "s", " ", "m", "o", "r", "n", "i", "n", "g", ".">> @@
  "I am going to the school this afternoon." :> <<"I", " ", "a", "m", " ", "g", "o", "i", "n", "g", " ", "t", "o", " ", "t", "h", "e", " ", "s", "c", "h", "o", "o", "l", " ", "t", "h", "i", "s", " ", "a", "f", "t", "e", "r", "n", "o", "o", "n", ".">> @@
  "I am going to the school this evening." :> <<"I", " ", "a", "m", " ", "g", "o", "i", "n", "g", " ", "t", "o", " ", "t", "h", "e", " ", "s", "c", "h", "o", "o", "l", " ", "t", "h", "i", "s", " ", "e", "v", "e", "n", "i", "n", "g", ".">> @@
  "I am going to the river this morning." :> <<"I", " ", "a", "m", " ", "g", "o", "i", "n", "g", " ", "t", "o", " ", "t", "h", "e", " ", "r", "i", "v", "e", "r", " ", "t", "h", "i", "s", " ", "m", "o", "r", "n", "i", "n", "g", ".">> @@
  "I am going to the river this afternoon." :> <<"I", " ", "a", "m", " ", "g", "o", "i", "n", "g", " ", "t", "o", " ", "t", "h", "e", " ", "r", "i", "v", "e", "r", " ", "t", "h", "i", "s", " ", "a", "f", "t", "e", "r", "n", "o", "o", "n", ".">> @@
  "I am going to the river this evening." :> <<"I", " ", "a", "m", " ", "g", "o", "i", "n", "g", " ", "t", "o", " ", "t", "h", "e", " ", "r", "i", "v", "e", "r", " ", "t", "h", "i", "s", " ", "e", "v", "e", "n", "i", "n", "g", ".">> @@
  "My house is near the market." :> <<"M", "y", " ", "h", "o", "u", "s", "e", " ", "i", "s", " ", "n", "e", "a", "r", " ", "t", "h", "e", " ", "m", "a", "r", "k", "e", "t", ".">> @@
  "My house is near the school." :> <<"M", "y", " ", "h", "o", "u", "s", "e", " ", "i", "s", " ", "n", "e", "a", "r", " ", "t", "h", "e", " ", "s", "c", "h", "o", "o", "l", ".">> @@
  "My house is near the river." :> <<"M", "y", " ", "h", "o", "u", "s", "e", " ", "i", "s", " ", "n", "e", "a", "r", " ", "t", "h", "e", " ", "r", "i", "v", "e", "r", ".">> @@
  "We will meet at the market tomorrow." :> <<"W", "e", " ", "w", "i", "l", "l", " ", "m", "e", "e", "t", " ", "a", "t", " ", "t", "h", "e", " ", "m", "a", "r", "k", "e", "t", " ", "t", "o", "m", "o", "r", "r", "o", "w", ".">> @@
  "We will meet at the school tomorrow." :> <<"W", "e", " ", "w", "i", "l", "l", " ", "m", "e", "e", "t", " ", "a", "t", " ", "t", "h", "e", " ", "s", "c", "h", "o", "o", "l", " ", "t", "o", "m", "o", "r", "r", "o", "w", ".">> @@
  "We will meet at the river tomorrow." :> <<"W", "e", " ", "w", "i", "l", "l", " ", "m", "e", "e", "t", " ", "a", "t", " ", "t", "h", "e", " ", "r", "i", "v", "e", "r", " ", "t", "o", "m", "o", "r", "r", "o", "w", ".">> @@
  "Thank you very much indeed" :> <<"T", "h", "a", "n", "k", " ", "y", "o", "u", " ", "v", "e", "r", "y", " ", "m", "u", "c", "h", " ", "i", "n", "d", "e", "e", "d">> @@
  "?" :> <<"?">> @@
  "!" :> <<"!">> @@
  "" :> <<>> @@
  "hello " :> <<"h", "e", "l", "l", "o", " ">> @@
  "River" :> <<"R", "i", "v", "e", "r">> @@
  "We will visit the market tomorrow." :> <<"W", "e", " ", "w", "i", "l", "l", " ", "v", "i", "s", "i", "t", " ", "t", "h", "e", " ", "m", "a", "r", "k", "e", "t", " ", "t", "o", "m", "o", "r", "r", "o", "w", ".">> @@
  "Where is the river?" :> <<"W", "h", "e", "r", "e", " ", "i", "s", " ", "t", "h", "e", " ", "r", "i", "v", "e", "r", "?">> @@
  "I will visit the food today." :> <<"I", " ", "w", "i", "l", "l", " ", "v", "i", "s", "i", "t", " ", "t", "h", "e", " ", "f", "o", "o", "d", " ", "t", "o", "d", "a", "y", ".">> @@
  "Thank  you" :> <<"T", "h", "a", "n", "k", " ", " ", "y", "o", "u">> @@
  "visit the food" :> <<"v", "i", "s", "i", "t", " ", "t", "h", "e", " ", "f", "o", "o", "d">> @@
  "visiting the food" :> <<"v", "i", "s", "i", "t", "i", "n", "g", " ", "t", "h", "e", " ", "f", "o", "o", "d">> @@
  "repair the food" :> <<"r", "e", "p", "a", "i", "r", " ", "t", "h", "e", " ", "f", "o", "o", "d">> @@
  "repairing the food" :> <<"r", "e", "p", "a", "i", "r", "i", "n", "g", " ", "t", "h", "e", " ", "f", "o", "o", "d">> @@
  "fix the food" :> <<"f", "i", "x", " ", "t", "h", "e", " ", "f", "o", "o", "d">> @@
  "fixing the food" :> <<"f", "i", "x", "i", "n", "g", " ", "t", "h", "e", " ", "f", "o", "o", "d">> @@
  "teach the food" :> <<"t", "e", "a", "c", "h", " ", "t", "h", "e", " ", "f", "o", "o", "d">> @@
  "teaching the food" :> <<"t", "e", "a", "c", "h", "i", "n", "g", " ", "t", "h", "e", " ", "f", "o", "o", "d">> @@
  "learn the food" :> <<"l", "e", "a", "r", "n", " ", "t", "h", "e", " ", "f", "o", "o", "d">> @@
  "learning the food" :> <<"l", "e", "a", "r", "n", "i", "n", "g", " ", "t", "h", "e", " ", "f", "o", "o", "d">> @@
  "i" :> <<"i">> @@
  "we" :> <<"w", "e">> @@
  "you" :> <<"y", "o", "u">> @@
  "he" :> <<"h", "e">> @@
  "she" :> <<"s", "h", "e">> @@
  "they" :> <<"t", "h", "e", "y">> @@
  "my" :> <<"m", "y">> @@
  "your" :> <<"y", "o", "u", "r">> @@
  "our" :> <<"o", "u", "r">> @@
  "I am going to the " :> <<"I", " ", "a", "m", " ", "g", "o", "i", "n", "g", " ", "t", "o", " ", "t", "h", "e", " ">> @@
  " " :> <<" ">> @@
  "." :> <<".">> @@
  "My house is near the " :> <<"M", "y", " ", "h", "o", "u", "s", "e", " ", "i", "s", " ", "n", "e", "a", "r", " ", "t", "h", "e", " ">> @@
  "We will meet at the " :> <<"W", "e", " ", "w", "i", "l", "l", " ", "m", "e", "e", "t", " ", "a", "t", " ", "t", "h", "e", " ">> @@
  " tomorrow." :> <<" ", "t", "o", "m", "o", "r", "r", "o", "w", ".">> @@
  "The road to the " :> <<"T", "h", "e", " ", "r", "o", "a", "d", " ", "t", "o", " ", "t", "h", "e", " ">> @@
  " is very long." :> <<" ", "i", "s", " ", "v", "e", "r", "y", " ", "l", "o", "n", "g", ".">> @@
  "She is working at the " :> <<"S", "h", "e", " ", "i", "s", " ", "w", "o", "r", "k", "i", "n", "g", " ", "a", "t", " ", "t", "h", "e", " ">> @@
  " today." :> <<" ", "t", "o", "d", "a", "y", ".">> @@
  "He is walking to the " :> <<"H", "e", " ", "i", "s", " ", "w", "a", "l", "k", "i", "n", "g", " ", "t", "o", " ", "t", "h", "e", " ">> @@
  " now." :> <<" ", "n", "o", "w", ".">> @@
  "They are waiting at the " :> <<"T", "h", "e", "y", " ", "a", "r", "e", " ", "w", "a", "i", "t", "i", "n", "g", " ", "a", "t", " ", "t", "h", "e", " ">>

UpperLetters ==
  <<"A", "B", "C", "D", "E", "F", "G", "H", "I", "J", "K", "L", "M",
    "N", "O", "P", "Q", "R", "S", "T", "U", "V", "W", "X", "Y", "Z">>
LowerLetters ==
  <<"a", "b", "c", "d", "e", "f", "g", "h", "i", "j", "k", "l", "m",
    "n", "o", "p", "q", "r", "s", "t", "u", "v", "w", "x", "y", "z">>
Digits == {"0", "1", "2", "3", "4", "5", "6", "7", "8", "9"}

Range(f) == {f[i] : i \in DOMAIN f}

\* \s of the regular expressions
IsSpace(c) == c = " "
\* [A-Za-z]
IsLetter(c) == c \in Range(UpperLetters) \cup Range(LowerLetters)
\* \w of the regular expressions
IsWordChar(c) == IsLetter(c) \/ c \in Digits \/ c = "_"

\* String.prototype.toLowerCase
toLowerCase(s) ==
  [i \in 1..Len(s) |->
     IF s[i] \in Range(UpperLetters)
     THEN LowerLetters[CHOOSE k \in 1..26 : UpperLetters[k] = s[i]]
     ELSE s[i]]

\* String.prototype.trim
trim(s) ==
  LET keep == {i \in 1..Len(s) : ~IsSpace(s[i])}
  IN IF keep = {} THEN <<>>
     ELSE SubSeq(s, CHOOSE i \in keep : \A j \in keep : i <= j,
                    CHOOSE i \in keep : \A j \in keep : i >= j)

\* the maximal runs of non-space characters of s, as <<first, last>>
Runs(s) ==
  {r \in (1..Len(s)) \X (1..Len(s)) :
     /\ r[1] <= r[2]
     /\ \A i \in r[1]..r[2] : ~IsSpace(s[i])
     /\ r[1] = 1 \/ IsSpace(s[r[1] - 1])
     /\ r[2] = Len(s) \/ IsSpace(s[r[2] + 1])}

\* s.split(/\s+/).length
SplitLength(s) ==
  IF Len(s) = 0 THEN 1
  ELSE Cardinality(Runs(s)) + (IF IsSpace(s[1]) THEN 1 ELSE 0)
                            + (IF IsSpace(s[Len(s)]) THEN 1 ELSE 0)

\* s.includes(sub)
Includes(s, sub) ==
  \E i \in 1..(Len(s) - Len(sub) + 1) : SubSeq(s, i, i + Len(sub) - 1) = sub

\* /\bpat\b/i.test(s) for a pattern of word characters and spaces
WordMatch(s, pat) ==
  LET l == toLowerCase(s)
  IN \E i \in 1..(Len(l) - Len(pat) + 1) :
       /\ SubSeq(l, i, i + Len(pat) - 1) = pat
       /\ i = 1 \/ ~IsWordChar(l[i - 1])
       /\ i + Len(pat) - 1 = Len(l) \/ ~IsWordChar(l[i + Len(pat)])

\* const tokenize = (s) => s.toLowerCase().replace(...).split(/\s+/).filter(Boolean);
\* the callers only build a Set of the tokens
tokenize(s) ==
  LET x == SelectSeq(toLowerCase(s),
                     LAMBDA c : c \in Range(LowerLetters) \/ c \in Digits \/ IsSpace(c))
  IN {SubSeq(x, r[1], r[2]) : r \in Runs(x)}

\* tokenize over every string of the model and its lower-cased trim,
\* computed once
TokenSets ==
  [cs \in {Chars[t] : t \in DOMAIN Chars} \cup
          {toLowerCase(trim(Chars[t])) : t \in DOMAIN Chars} |-> tokenize(cs)]

\* s.trim().toLowerCase() over every string of the model, computed once
LowerTrim ==
  [cs \in {Chars[t] : t \in DOMAIN Chars} |-> toLowerCase(trim(cs))]

\* const jaccard = (a, b) => ...: <<inter, uni>>, the quotient's two terms
jaccard(a, b) ==
  LET A == TokenSets[a]
      B == TokenSets[b]
  IN <<Cardinality(A \cap B), Cardinality(A \cup B)>>

\* a variant that accepts a similarity of exactly 0.8
JaccardAboveFourFifths(a, b) ==
  LET j == jaccard(a, b)
  IN j[2] # 0 /\ 5 * j[1] > 4 * j[2]

\* jaccard(a, b) >= 0.8, with uni ? inter / uni : 0
JaccardAtLeastFourFifths(a, b) ==
  LET j == jaccard(a, b)
  IN j[2] # 0 /\ 5 * j[1] >= 4 * j[2]

\* const isTooSimilar = (candidate) => ... over the request's usedTexts
isTooSimilar(candidate, usedTexts) ==
  LET cand == LowerTrim[candidate]
  IN \/ cand \in usedTexts
     \/ \E t \in usedTexts : JaccardAtLeastFourFifths(candidate, t)

\* const NATURAL_BAD_PATTERNS: RegExp[]
NATURAL_BAD_PATTERNS ==
  {Chars["visit the food"], Chars["visiting the food"],
   Chars["repair the food"], Chars["repairing the food"],
   Chars["fix the food"], Chars["fixing the food"],
   Chars["teach the food"], Chars["teaching the food"],
   Chars["learn the food"], Chars["learning the food"]}

\* /\b(I|We|You|He|She|They|My|Your|Our)\b/i
Pronouns ==
  {Chars["i"], Chars["we"], Chars["you"], Chars["he"], Chars["she"],
   Chars["they"], Chars["my"], Chars["your"], Chars["our"]}

SentenceMaxLength == 120

\* const isNatural = (text, type) => ...
isNatural(text, type) ==
  LET t == trim(text)
  IN IF Len(t) = 0 THEN FALSE
     ELSE IF type = "word"
     THEN /\ \A i \in 1..Len(t) : ~IsSpace(t[i])
          /\ IsLetter(t[1])
          /\ Len(t) - 1 >= 1 /\ Len(t) - 1 <= 30
          /\ \A i \in 2..Len(t) : IsLetter(t[i]) \/ t[i] = "-" \/ t[i] = "'"
     ELSE IF type = "phrase"
     THEN /\ ~(SplitLength(t) < 2 \/ SplitLength(t) > 8)
          /\ ~(\E i \in 1..Len(t) : t[i] \in {"{", "}", "[", "]"})
          /\ \A r \in NATURAL_BAD_PATTERNS : ~WordMatch(t, r)
     ELSE /\ ~(SplitLength(t) < 4 \/ Len(t) > SentenceMaxLength)
          /\ t[Len(t)] \in {".", "?", "!"}
          /\ \E p \in Pronouns : WordMatch(t, p)
          /\ \A r \in NATURAL_BAD_PATTERNS : ~WordMatch(t, r)


GlottoCode == "abcd1234"
GlottoName == "Abcd"

\* the tables (of tasks, the rows added after the seed), the OPENAI_API_KEY setting, the generate-task requests in
\* flight (one record per slot), the number of requests started so far and
\* the request that answered last, with its response
VARIABLES languages, generated, recordings, progress, profiles,
          openAIApiKey, reqs, started, last, genDone, genCount, recSince,
          referrals, refTx, recTx, sia, jobs, upserts, chat, fn

\* genDone, genCount and recSince are history: per (user, language), the
\* number of non-forced requests that returned a task, the taskCount the
\* last of them had read, and the number of recordings inserted since the
\* last of them returned
hist == <<genDone, genCount, recSince>>

\* the referrals table and the referral inserts in flight, the recording
\* inserts in flight as transactions, the recordings rows that carry a
\* sia_cid, the runs of archive-to-sia, the runs of upsert-language and the
\* state of the Chat page, and the arguments and results of the calls of a
\* helper function: used by the specifications of the referral, upsert,
\* archival, language, page and helper claims, empty and fixed elsewhere
ext == <<referrals, refTx, recTx, sia, jobs, upserts, chat, fn>>

vars == <<languages, generated, recordings, progress, profiles,
          openAIApiKey, reqs, started, last, genDone, genCount, recSince,
          referrals, refTx, recTx, sia, jobs, upserts, chat, fn>>

\* ------------------------------------------------------------- the schema
\* CREATE TABLE public.user_task_progress: a missing row is present = FALSE
NoProgress == [present |-> FALSE, recordings_count |-> 0, can_generate_next |-> FALSE]

\* starter task seed: CASE sequence_order ... END as english_text
StarterText(n) ==
  CASE n = 1 -> "Hello" [] n = 2 -> "Thank you" [] n = 3 -> "Please"
    [] n = 4 -> "Goodbye" [] n = 5 -> "Yes" [] n = 6 -> "No"
    [] n = 7 -> "Water" [] n = 8 -> "Food" [] n = 9 -> "Home"
    [] n = 10 -> "Family" [] n = 11 -> "How are you?"
    [] n = 12 -> "What is your name?" [] n = 13 -> "I am fine"
    [] n = 14 -> "Nice to meet you" [] n = 15 -> "See you later"
    [] n = 16 -> "My name is John" [] n = 17 -> "I live in the city"
    [] n = 18 -> "The weather is nice today"
    [] n = 19 -> "I would like some water please"
    [] OTHER -> "Thank you very much for your help"

\* starter task seed: one row of the CROSS JOIN generate_series(1, 20)
StarterTask(l, n) ==
  [english_text |-> StarterText(n),
   type |-> IF n <= 10 THEN "word" ELSE IF n <= 15 THEN "phrase" ELSE "sentence",
   difficulty |-> IF n <= 10 THEN "beginner"
                  ELSE IF n <= 15 THEN "intermediate" ELSE "advanced",
   language_id |-> l,
   sequence_order |-> n,
   is_starter_task |-> TRUE,
   created_by_ai |-> FALSE]

\* the seeded language's 20 starter tasks
SeedTasks == [n \in 1..StarterCount |-> StarterTask(SeedLangId, n)]

\* the tasks table: the seed rows, which are never updated or deleted, and
\* then the rows the generate-task requests inserted
tasks == SeedTasks \o generated

\* a task's id is its position in the tasks table
TaskIds == 1..(StarterCount + Len(generated))

\* the row of the tasks table with id t
Task(t) == IF t <= StarterCount THEN SeedTasks[t] ELSE generated[t - StarterCount]

\* the number of recordings of user u for tasks of language l
RecordingsOf(u, l) ==
  Cardinality({r \in recordings : r[1] = u /\ Task(r[2]).language_id = l})

\* --------------------------------------------------- update_user_progress
\* CASE WHEN difficulty = ... END INTO points_to_award
PointsToAward(difficulty) ==
  CASE difficulty = "beginner" -> 10
    [] difficulty = "intermediate" -> 20
    [] difficulty = "advanced" -> 30
    [] OTHER -> 10

\* INSERT ... ON CONFLICT (user_id, language_id) DO UPDATE SET ...
UpsertProgress(row) ==
  IF row.present
  THEN [present |-> TRUE,
        recordings_count |-> row.recordings_count + 1,
        can_generate_next |-> (row.recordings_count + 1) >= UnlockThreshold]
  ELSE [present |-> TRUE, recordings_count |-> 1, can_generate_next |-> FALSE]

\* a faulty variant of update_user_progress: the profile's points are set
\* to the award instead of raised by it
UpdateProgressOverwritingPoints(db, ts, u, t) ==
  LET task_language_id == ts[t].language_id
      points_to_award == PointsToAward(ts[t].difficulty)
  IN [progress |-> [db.progress EXCEPT ![<<u, task_language_id>>] = UpsertProgress(@)],
      profiles |-> [db.profiles EXCEPT
                      ![u] = [total_recordings |-> @.total_recordings + 1,
                              points |-> points_to_award]]]

\* the trigger function, run for one NEW recording row (u, task t) on the
\* database state db = [progress, profiles]
update_user_progress(db, ts, u, t) ==
  LET task_language_id == ts[t].language_id
      points_to_award == PointsToAward(ts[t].difficulty)
  IN [progress |-> [db.progress EXCEPT ![<<u, task_language_id>>] = UpsertProgress(@)],
      profiles |-> [db.profiles EXCEPT
                      ![u] = [total_recordings |-> @.total_recordings + 1,
                              points |-> @.points + points_to_award]]]

\* CREATE TRIGGER on_recording_created AFTER INSERT ON public.recordings
on_recording_created(db, ts, u, t) == update_user_progress(db, ts, u, t)

\* CREATE TRIGGER trg_update_user_progress AFTER INSERT ON public.recordings
trg_update_user_progress(db, ts, u, t) == update_user_progress(db, ts, u, t)

\* every AFTER INSERT row trigger of public.recordings fires, in name order
AfterInsertRecording(db, ts, u, t) ==
  trg_update_user_progress(on_recording_created(db, ts, u, t), ts, u, t)


\* ---------------------------------------------------------- generate-task
NoResponse ==
  [kind |-> "none", task |-> NULL, nextStarterTask |-> NULL,
   recordings_needed |-> 0, fallback |-> FALSE]

\* the locals of one run of the serve handler
IdleReq ==
  [pc |-> "idle", user_id |-> "", language_id |-> "", force |-> FALSE,
   languageDbId |-> "", taskCount |-> 0, language |-> "",
   randomType |-> "", randomDifficulty |-> "", recentTasks |-> 0,
   usedTexts |-> {}, usedWords |-> {},
   english_text |-> "", createdByAi |-> FALSE, newTask |-> NULL,
   response |-> NoResponse,
   \* history: genDone of (user, language) when the request arrived; for
   \* last, whether the request before it in genDone had returned by then,
   \* the taskCount that request had read and the recordings inserted
   \* since it returned; the number of recordings of the user for the
   \* language when the request read the progress row, -1 before that
   epoch |-> 0, consecutive |-> FALSE, prevTaskCount |-> 0,
   recordingsBetween |-> 0, recordingsAtRead |-> -1]

Slots == DOMAIN reqs

\* return new Response(...): the handler ends; the slot is free again and
\* last keeps who asked and what was answered
Respond(s, resp) ==
  /\ reqs' = [reqs EXCEPT ![s] = IdleReq]
  /\ last' = [IdleReq EXCEPT !.pc = "done", !.response = resp,
                             !.user_id = reqs[s].user_id,
                             !.force = reqs[s].force,
                             !.languageDbId = reqs[s].languageDbId,
                             !.taskCount = reqs[s].taskCount,
                             !.language = reqs[s].language]

\* .from('languages').select(...).eq(col, v).maybeSingle()
LanguageBy(col, v) ==
  IF col = "id" THEN {l \in languages : l.id = v}
  ELSE {l \in languages : l.code = v}

\* const { language_id, user_id, force } = await req.json(); the language
\* is resolved by UUID, then by code
GenStart(s, u, lid, f) ==
  /\ reqs[s].pc = "idle"
  /\ \A o \in Slots : o < s => reqs[o].pc # "idle"
  /\ started < MaxRequests
  /\ started' = started + 1
  /\ LET langCheck == LanguageBy("id", lid)
         codeData == LanguageBy("code", lid)
         dbId == IF langCheck # {} THEN lid
                 ELSE IF codeData # {} THEN (CHOOSE l \in codeData : TRUE).id
                 ELSE lid
     IN reqs' = [reqs EXCEPT ![s] =
                   [IdleReq EXCEPT !.pc = "starter", !.user_id = u,
                                   !.language_id = lid, !.force = f,
                                   !.languageDbId = dbId,
                                   !.epoch = IF dbId \in LangIds
                                             THEN genDone[<<u, dbId>>] ELSE 0]]
  /\ UNCHANGED <<ext, languages, generated, recordings, progress, profiles,
                 openAIApiKey, last, hist>>

\* ORDER BY sequence_order: ascending, a NULL sequence_order sorts last
SequenceKey(t) ==
  IF Task(t).sequence_order = NULL THEN StarterCount + 1
  ELSE Task(t).sequence_order

\* the starter tasks of language l that have no recording by user u
IncompleteStarters(u, l) ==
  {t \in TaskIds : /\ Task(t).language_id = l
                   /\ Task(t).is_starter_task
                   /\ <<u, t>> \notin recordings}

\* a faulty variant of NextStarterTasks: the query without its ORDER BY
AnyIncompleteStarter(u, l) == IncompleteStarters(u, l)

\* starterTasks?.find(...): the first incomplete task of the ordered result;
\* rows with equal keys come in either order
NextStarterTasks(u, l) ==
  {t \in IncompleteStarters(u, l) :
     \A o \in IncompleteStarters(u, l) : SequenceKey(t) <= SequenceKey(o)}

\* Check if user should work on starter tasks first
GenStarterCheck(s) ==
  /\ reqs[s].pc = "starter"
  /\ LET r == reqs[s]
         next == NextStarterTasks(r.user_id, r.languageDbId)
     IN IF next # {}
        THEN \E t \in next :
               Respond(s, [NoResponse EXCEPT !.kind = "starter_first",
                                             !.nextStarterTask = t])
        ELSE /\ reqs' = [reqs EXCEPT ![s].pc = "count"]
             /\ UNCHANGED last
  /\ UNCHANGED <<ext, languages, generated, recordings, progress, profiles,
                 openAIApiKey, started, hist>>

\* a faulty variant of GenTaskCount: force does not skip the progress check
GenTaskCountIgnoringForce(s) ==
  /\ reqs[s].pc = "count"
  /\ LET r == reqs[s]
         taskCount == Cardinality({t \in TaskIds :
                                     Task(t).language_id = r.languageDbId})
     IN reqs' = [reqs EXCEPT ![s].taskCount = taskCount,
                             ![s].pc = IF taskCount = 0 THEN "language"
                                       ELSE "progress"]
  /\ UNCHANGED <<ext, languages, generated, recordings, progress, profiles,
                 openAIApiKey, started, last, hist>>

\* Check if there are any existing tasks for this language; without tasks,
\* and with force, the progress row is not read
GenTaskCount(s) ==
  /\ reqs[s].pc = "count"
  /\ LET r == reqs[s]
         taskCount == Cardinality({t \in TaskIds :
                                     Task(t).language_id = r.languageDbId})
     IN reqs' = [reqs EXCEPT ![s].taskCount = taskCount,
                             ![s].pc = IF taskCount = 0 THEN "language"
                                       ELSE IF ~r.force THEN "progress"
                                       ELSE "language"]
  /\ UNCHANGED <<ext, languages, generated, recordings, progress, profiles,
                 openAIApiKey, started, last, hist>>

\* a faulty variant of Locked: a missing progress row does not lock
LockedRowOnly(row) == row.present /\ ~row.can_generate_next

\* if (!progress || !progress.can_generate_next)
Locked(row) == ~row.present \/ ~row.can_generate_next

\* Check if user can generate next task (has completed 2 recordings)
GenProgressCheck(s) ==
  /\ reqs[s].pc = "progress"
  /\ LET r == reqs[s]
         row == progress[<<r.user_id, r.languageDbId>>]
     IN IF Locked(row)
        THEN Respond(s, [NoResponse EXCEPT
               !.kind = "need_recordings",
               !.recordings_needed =
                  UnlockThreshold - (IF row.present THEN row.recordings_count ELSE 0)])
        ELSE /\ reqs' = [reqs EXCEPT
                        ![s].pc = "language",
                        ![s].recordingsAtRead =
                           RecordingsOf(r.user_id, r.languageDbId)]
             /\ UNCHANGED last
  /\ UNCHANGED <<ext, languages, generated, recordings, progress, profiles,
                 openAIApiKey, started, hist>>

\* Get language name - try multiple approaches
GenLoadLanguage(s) ==
  /\ reqs[s].pc = "language"
  /\ LET r == reqs[s]
         byId == LanguageBy("id", r.languageDbId)
         found == IF byId # {} THEN byId ELSE LanguageBy("code", r.language_id)
     IN IF found # {}
        THEN reqs' = [reqs EXCEPT ![s].language = (CHOOSE l \in found : TRUE).id,
                                  ![s].pc = "prepare"]
        ELSE reqs' = [reqs EXCEPT ![s].pc = "glottolog"]
  /\ UNCHANGED <<ext, languages, generated, recordings, progress, profiles,
                 openAIApiKey, started, last, hist>>

\* the rows of glottolog-full.csv: values[0] is the id, values[1] the name
GlottologCsv == {<<GlottoCode, GlottoName>>}

\* If still not found, this might be a Glottolog ID - create the language;
\* csvOk is whether the fetch of the CSV answered with its rows
GenGlottolog(s, csvOk) ==
  /\ reqs[s].pc = "glottolog"
  /\ LET r == reqs[s]
         hit == {v \in GlottologCsv : v[1] = r.language_id}
         \* name TEXT NOT NULL UNIQUE, code TEXT NOT NULL UNIQUE
         createError(v) == \E l \in languages : l.name = v[2] \/ l.code = v[1]
     IN IF csvOk /\ \E v \in hit : ~createError(v)
        THEN LET v == CHOOSE v \in hit : ~createError(v)
             IN /\ languages' = languages \cup
                     {[id |-> NewLangId, name |-> v[2], code |-> r.language_id]}
                /\ reqs' = [reqs EXCEPT ![s].language = NewLangId,
                                        ![s].pc = "prepare"]
                /\ UNCHANGED last
        ELSE /\ Respond(s, [NoResponse EXCEPT !.kind = "language_not_found"])
             /\ UNCHANGED languages
  /\ UNCHANGED <<ext, generated, recordings, progress, profiles, openAIApiKey,
                 started, hist>>


\* ---------------------------------------------- generate-task: the content
RecentLimit == 200
MaxTries == 12

\* const taskTypesPool / const difficulties: what Math.random() can pick
taskTypesPool == <<"phrase", "sentence", "sentence", "phrase", "word">>
TaskTypes == {taskTypesPool[i] : i \in DOMAIN taskTypesPool}
difficulties == <<"beginner", "intermediate", "advanced">>
\* the draws of randomDifficulty, cut to the first MaxDifficulty entries
Difficulties == {difficulties[i] : i \in 1..MaxDifficulty}

\* the curated pools of makeFallbackCandidate, cut to their first PoolSize
\* entries
words == <<"water", "family", "friend">>
phrases == <<"How are you?", "Please wait a moment.", "Can you help me?">>
places == <<"market", "school", "river">>
times == <<"this morning", "this afternoon", "this evening">>
\* the sentence templates: <<text before pl, uses tm, text after>>
sentences ==
  <<<<"I am going to the ", TRUE, ".">>,
    <<"My house is near the ", FALSE, ".">>,
    <<"We will meet at the ", FALSE, " tomorrow.">>>>

Pool(list) == {list[i] : i \in 1..PoolSize}

\* the string whose spelling is cs
TextOf(cs) == CHOOSE t \in DOMAIN Chars : Chars[t] = cs

\* sentences[...](pl, tm): the template literal filled in
FillSentence(tp, pl, tm) ==
  TextOf(Chars[tp[1]] \o Chars[pl]
         \o (IF tp[2] THEN Chars[" "] \o Chars[tm] ELSE <<>>) \o Chars[tp[3]])

FallbackSentences ==
  {FillSentence(tp, pl, tm) : tp \in Pool(sentences), pl \in Pool(places),
                              tm \in Pool(times)}

\* isNatural over every string of the model and its trim, computed once
Natural ==
  [a \in ({Chars[t] : t \in DOMAIN Chars} \cup {trim(Chars[t]) : t \in DOMAIN Chars})
          \X TaskTypes |-> isNatural(a[1], a[2])]

\* s.trim(), for every string of the model, computed once
Trimmed == [t \in DOMAIN Chars |-> trim(Chars[t])]

\* (t.english_text ?? '').trim().toLowerCase(), for every string of the model
Norm == [t \in DOMAIN Chars |-> toLowerCase(Trimmed[t])]

\* t && !t.includes(' ') of the trimmed text, for every string of the model
OneWord ==
  [t \in DOMAIN Chars |-> Len(Trimmed[t]) # 0 /\ ~Includes(Trimmed[t], Chars[" "])]

\* the rows of the recentTasks query for language l, issued when the tasks
\* table had n rows: the RecentLimit newest
RecentTaskIds(l, n) ==
  LET ids == {t \in 1..n : Task(t).language_id = l}
  IN IF Cardinality(ids) <= RecentLimit THEN ids
     ELSE {t \in ids : Cardinality({o \in ids : o > t}) < RecentLimit}

\* const usedTexts = new Set(...)
UsedTexts(l, n) == {Norm[Task(t).english_text] : t \in RecentTaskIds(l, n)}

\* const usedWords = ...: the one-word texts, lower-cased
UsedWords(l, n) ==
  {Norm[Task(t).english_text] : t \in
     {t \in RecentTaskIds(l, n) : OneWord[Task(t).english_text]}}

\* const makeFallbackCandidate = (type) => ...: the texts it can return
makeFallbackCandidate(type, usedTexts, usedWords) ==
  IF type = "word"
  THEN LET filtered == {w \in Pool(words) : Chars[w] \notin usedWords}
       IN IF filtered # {} THEN filtered ELSE Pool(words)
  ELSE IF type = "phrase"
  THEN LET pool == {ph \in Pool(phrases) : ~isTooSimilar(Chars[ph], usedTexts)}
       IN IF pool # {} THEN pool ELSE Pool(phrases)
  ELSE FallbackSentences

RECURSIVE FallbackTries(_, _, _, _)
\* the for loop of pickUniqueFallback from try i on: a try returns one of
\* the candidates that pass (good); when it draws one of the others (bad)
\* the loop goes on, and after maxTries tries the final phrase is returned
FallbackTries(i, good, bad, final) ==
  IF i >= MaxTries THEN final
  ELSE good \cup (IF bad # {} THEN FallbackTries(i + 1, good, bad, final) ELSE {})

\* const pickUniqueFallback = (type, maxTries = 12) => ...: the texts it
\* can return; cands and good are bound once, as sets
pickUniqueFallback(type, usedTexts, usedWords) ==
  LET final == {IF Natural[<<Chars[f], "phrase">>] THEN f ELSE "Thank you very much." :
                  f \in makeFallbackCandidate("phrase", usedTexts, usedWords)}
  IN UNION {UNION {FallbackTries(0, good, cands \ good, final) :
                     good \in {{c \in cands : ~isTooSimilar(Chars[c], usedTexts)
                                               /\ Natural[<<Chars[c], type>>]}}} :
              cands \in {makeFallbackCandidate(type, usedTexts, usedWords)}}

AiOutcomes == {"throws", "not_ok", "bad_body", "unparsable", "json"}

\* what the text-generation service can put in english_text
AiTexts == {"", "hello ", "River", "Thank  you"}

\* const invalidAi = ...
invalidAi(aiText, type, usedTexts) ==
  LET aiEnglishText == Trimmed[aiText]
  IN \/ Len(aiEnglishText) = 0
     \/ toLowerCase(aiEnglishText) \in usedTexts
     \/ ~Natural[<<aiEnglishText, type>>]

\* the API key check and the recentTasks query with the usedTexts and
\* usedWords made of its rows; randomType and randomDifficulty are drawn
\* where they are first used
GenPrepare(s) ==
  /\ reqs[s].pc = "prepare"
  /\ IF ~openAIApiKey
     THEN Respond(s, [NoResponse EXCEPT !.kind = "no_api_key"])
     ELSE /\ reqs' = [reqs EXCEPT
                        ![s].recentTasks = (StarterCount + Len(generated)),
                        ![s].usedTexts =
                           UsedTexts(reqs[s].language, StarterCount + Len(generated)),
                        ![s].usedWords =
                           UsedWords(reqs[s].language, StarterCount + Len(generated)),
                        ![s].pc = "openai"]
          /\ UNCHANGED last
  /\ UNCHANGED <<ext, languages, generated, recordings, progress, profiles,
                 openAIApiKey, started, hist>>

\* await fetch('https://api.openai.com/v1/chat/completions', ...) and what
\* the handler makes of the answer:
\*   "throws"      fetch rejects                      -> catch
\*   "not_ok"      !openAIResponse.ok                 -> fallback
\*   "bad_body"    json() or choices[0] throws        -> catch
\*   "unparsable"  JSON.parse(generatedContent) throws -> fallback
\*   "json"        taskData.english_text = aiText
\* randomType (type), the outcome and aiText are the step's inputs
GenCallOpenAI(s) ==
  /\ reqs[s].pc = "openai"
  /\ LET r == reqs[s]
         usedTexts == r.usedTexts
         usedWords == r.usedWords
         Goto(pc, type, text, ai) ==
           /\ reqs' = [reqs EXCEPT ![s].randomType = type,
                                   ![s].english_text = text,
                                   ![s].createdByAi = ai,
                                   ![s].pc = pc]
           /\ UNCHANGED last
     IN \E type \in TaskTypes :
          \E fallbacks \in {pickUniqueFallback(type, usedTexts, usedWords)} :
             \E outcome \in AiOutcomes :
               CASE outcome \in {"throws", "bad_body"} ->
                      Respond(s, [NoResponse EXCEPT !.kind = "internal_error"])
                 [] outcome = "not_ok" ->
                      \E c \in fallbacks : Goto("insert_fallback", type, c, FALSE)
                 [] outcome = "unparsable" ->
                      \E c \in fallbacks : Goto("insert_parse", type, c, FALSE)
                 [] outcome = "json" ->
                      \E aiText \in AiTexts :
                        IF invalidAi(aiText, type, usedTexts)
                        THEN \E c \in fallbacks : Goto("insert_main", type, c, FALSE)
                        ELSE Goto("insert_main", type, aiText, TRUE)
  /\ UNCHANGED <<ext, languages, generated, recordings, progress, profiles,
                 openAIApiKey, started, hist>>

\* a faulty variant of InsertTask: the progress row is reset although the
\* insert failed
InsertTaskResetOnFailure(s, at, is_starter_task, difficulty, ok, next) ==
  /\ reqs[s].pc = at
  /\ LET r == reqs[s]
     IN IF ok
        THEN /\ generated' = Append(generated,
                  [english_text |-> r.english_text,
                   type |-> r.randomType,
                   difficulty |-> difficulty,
                   language_id |-> r.language,
                   sequence_order |-> NULL,
                   is_starter_task |-> is_starter_task,
                   created_by_ai |-> r.createdByAi])
             /\ reqs' = [reqs EXCEPT ![s].randomDifficulty = difficulty,
                                     ![s].newTask = (StarterCount + Len(generated)) + 1,
                                     ![s].pc = next]
             /\ UNCHANGED <<last, progress>>
        ELSE /\ Respond(s, [NoResponse EXCEPT !.kind = "save_failed"])
             /\ progress' = [progress EXCEPT ![<<r.user_id, r.language>>] =
                               [present |-> TRUE, recordings_count |-> 0,
                                can_generate_next |-> FALSE]]
             /\ UNCHANGED generated
  /\ UNCHANGED <<ext, languages, recordings, profiles, openAIApiKey,
                 started, hist>>

\* .from('tasks').insert({...}).select().single(); ok is whether the
\* database accepted the row. sequence_order is never set (NULL)
InsertTask(s, at, is_starter_task, difficulty, ok, next) ==
  /\ reqs[s].pc = at
  /\ LET r == reqs[s]
     IN IF ok
        THEN /\ generated' = Append(generated,
                  [english_text |-> r.english_text,
                   type |-> r.randomType,
                   difficulty |-> difficulty,
                   language_id |-> r.language,
                   sequence_order |-> NULL,
                   is_starter_task |-> is_starter_task,
                   created_by_ai |-> r.createdByAi])
             /\ reqs' = [reqs EXCEPT ![s].randomDifficulty = difficulty,
                                     ![s].newTask = (StarterCount + Len(generated)) + 1,
                                     ![s].pc = next]
             /\ UNCHANGED last
        ELSE /\ Respond(s, [NoResponse EXCEPT !.kind = "save_failed"])
             /\ UNCHANGED generated
  /\ UNCHANGED <<ext, languages, recordings, progress, profiles, openAIApiKey,
                 started, hist>>

\* the insert after !openAIResponse.ok: is_starter_task: !taskCount || taskCount === 0
GenInsertFallback(s, difficulty, ok) ==
  InsertTask(s, "insert_fallback", reqs[s].taskCount = 0, difficulty, ok,
             "reset_fallback")

\* the insert in the catch of JSON.parse
GenInsertParseFallback(s, difficulty, ok) ==
  InsertTask(s, "insert_parse", reqs[s].taskCount = 0, difficulty, ok,
             "reset_parse")

\* the insert of the main path: no is_starter_task, so DEFAULT false
GenInsertMain(s, difficulty, ok) ==
  InsertTask(s, "insert_main", FALSE, difficulty, ok, "reset_main")

\* a faulty variant of ResetRow: the update leaves can_generate_next out
ResetRowCountOnly(row) ==
  IF row.present THEN [row EXCEPT !.recordings_count = 0] ELSE row

\* a faulty variant of ResetRow: the update is missing
KeepRow(row) == row

\* a faulty variant of ResetRow: the update takes the two recordings that
\* unlocked the row off the count instead of setting it to 0
ResetRowByDecrement(row) ==
  IF row.present
  THEN [row EXCEPT !.recordings_count = @ - UnlockThreshold,
                   !.can_generate_next = (row.recordings_count - UnlockThreshold) >= UnlockThreshold]
  ELSE row

\* a faulty variant of ResetRow: an upsert, which creates the row when the
\* user has none for the language
ResetRowByUpsert(row) ==
  [present |-> TRUE, recordings_count |-> 0, can_generate_next |-> FALSE]

\* .from('user_task_progress').update({recordings_count: 0,
\* can_generate_next: false}).eq('user_id', ...).eq('language_id', ...)
ResetRow(row) ==
  IF row.present
  THEN [row EXCEPT !.recordings_count = 0, !.can_generate_next = FALSE]
  ELSE row

\* the update of the progress row, then the {task} response
ResetProgress(s, at, fallback) ==
  /\ reqs[s].pc = at
  /\ LET r == reqs[s]
     IN /\ progress' = [progress EXCEPT ![<<r.user_id, r.language>>] = ResetRow(@)]
        /\ reqs' = [reqs EXCEPT ![s] = IdleReq]
        /\ last' = [IdleReq EXCEPT
             !.pc = "done",
             !.response = [NoResponse EXCEPT !.kind = "task", !.task = r.newTask,
                                             !.fallback = fallback],
             !.user_id = r.user_id, !.force = r.force,
             !.languageDbId = r.languageDbId,
             !.taskCount = r.taskCount, !.language = r.language,
             !.epoch = r.epoch,
             !.consecutive = r.epoch >= 1 /\ r.epoch = genDone[<<r.user_id, r.language>>],
             !.prevTaskCount = genCount[<<r.user_id, r.language>>],
             !.recordingsBetween = recSince[<<r.user_id, r.language>>]]
        /\ IF r.force THEN UNCHANGED hist
           ELSE /\ genDone' = [genDone EXCEPT ![<<r.user_id, r.language>>] = @ + 1]
                /\ genCount' = [genCount EXCEPT ![<<r.user_id, r.language>>] = r.taskCount]
                /\ recSince' = [recSince EXCEPT ![<<r.user_id, r.language>>] = 0]
  /\ UNCHANGED <<ext, languages, generated, recordings, profiles, openAIApiKey, started>>

GenResetFallback(s) == ResetProgress(s, "reset_fallback", TRUE)

GenResetParseFallback(s) == ResetProgress(s, "reset_parse", TRUE)

\* Reset user's progress so they need 2 more recordings for next task
GenResetMain(s) == ResetProgress(s, "reset_main", FALSE)

\* ------------------------------------------------------------------- Init
EmptyDb ==
  [progress |-> [p \in AllUsers \X LangIds |-> NoProgress],
   profiles |-> [u \in AllUsers |-> [total_recordings |-> 0, points |-> 0]]]

\* the starter tasks a user may still have to record at the start: the last
\* one of each difficulty, from the most difficult down
OpenCandidates == <<20, 15, 10>>
OpenStarters == {OpenCandidates[i] : i \in 1..MaxOpenStarters}

\* the database after user s[1] alone recorded the starter tasks 1..s[3] of
\* the seed language except those in s[2], one recording insert after the
\* other
StarterDb[s \in AllUsers \X {{}, OpenStarters} \X (0..StarterCount)] ==
  IF s[3] = 0 THEN EmptyDb
  ELSE IF s[3] \in s[2] THEN StarterDb[<<s[1], s[2], s[3] - 1>>]
  ELSE CHOOSE db \in {AfterInsertRecording(before, SeedTasks, s[1], s[3]) :
                        before \in {StarterDb[<<s[1], s[2], s[3] - 1>>]}} : TRUE

\* no referral, no transaction in flight, nothing archived
NoExt ==
  /\ referrals = {}
  /\ refTx = <<>>
  /\ recTx = <<>>
  /\ sia = {}
  /\ jobs = <<>>
  /\ upserts = <<>>
  /\ chat = <<>>
  /\ fn = <<>>

\* the seed migrations have run; OtherUser has recorded every starter task
\* and each acting user all but the MaxOpenStarters tasks of OpenStarters
InitDb ==
  LET open == [u \in AllUsers |-> IF u = OtherUser THEN {} ELSE OpenStarters]
  IN
    /\ languages = {[id |-> SeedLangId, name |-> "Spanish", code |-> "es"]}
    /\ generated = <<>>
    /\ recordings = {r \in AllUsers \X (1..StarterCount) : r[2] \notin open[r[1]]}
    /\ progress = [p \in AllUsers \X LangIds |->
                     StarterDb[<<p[1], open[p[1]], StarterCount>>].progress[p]]
    /\ profiles = [u \in AllUsers |->
                     StarterDb[<<u, open[u], StarterCount>>].profiles[u]]
    /\ openAIApiKey \in BOOLEAN
    /\ reqs = [s \in 1..MaxInFlight |-> IdleReq]
    /\ started = 0
    /\ last = IdleReq
    /\ genDone = [p \in Users \X LangIds |-> 0]
    /\ genCount = [p \in Users \X LangIds |-> 0]
    /\ recSince = [p \in Users \X LangIds |-> 0]

Init ==
  /\ InitDb
  /\ NoExt

\* ------------------------------------------------------- recording insert
\* INSERT INTO public.recordings (user_id, task_id, ...): UNIQUE(user_id,
\* task_id) rejects a second row; the AFTER INSERT triggers run in the
\* same transaction
RecordingRowInsert(u, t) ==
  /\ t \in TaskIds
  /\ <<u, t>> \notin recordings
  /\ recordings' = recordings \cup {<<u, t>>}
  /\ LET db == AfterInsertRecording([progress |-> progress, profiles |-> profiles],
                                    tasks, u, t)
     IN /\ progress' = db.progress
        /\ profiles' = db.profiles
  /\ recSince' = [recSince EXCEPT ![<<u, Task(t).language_id>>] = @ + 1]
  /\ UNCHANGED <<languages, generated, openAIApiKey, reqs, started, last,
                 genDone, genCount, upserts, chat, fn>>

\* the insert of handleSubmitRecording, the archival that follows it left
\* aside
RecordingInsert(u, t) ==
  /\ RecordingRowInsert(u, t)
  /\ UNCHANGED ext

Next ==
  \/ \E u \in Users, t \in TaskIds : RecordingInsert(u, t)
  \/ \E s \in Slots, u \in Users, lid \in {SeedLangId, GlottoCode}, f \in BOOLEAN :
       GenStart(s, u, lid, f)
  \/ \E s \in Slots : GenStarterCheck(s)
  \/ \E s \in Slots : GenTaskCount(s)
  \/ \E s \in Slots : GenProgressCheck(s)
  \/ \E s \in Slots : GenLoadLanguage(s)
  \/ \E s \in Slots, csvOk \in BOOLEAN : GenGlottolog(s, csvOk)
  \/ \E s \in Slots : GenPrepare(s)
  \/ \E s \in Slots : GenCallOpenAI(s)
  \/ \E s \in Slots, d \in Difficulties, ok \in BOOLEAN : GenInsertFallback(s, d, ok)
  \/ \E s \in Slots, d \in Difficulties, ok \in BOOLEAN : GenInsertParseFallback(s, d, ok)
  \/ \E s \in Slots, d \in Difficulties, ok \in BOOLEAN : GenInsertMain(s, d, ok)
  \/ \E s \in Slots : GenResetFallback(s)
  \/ \E s \in Slots : GenResetParseFallback(s)
  \/ \E s \in Slots : GenResetMain(s)

Spec == Init /\ [][Next]_vars

\* ----------------------------------------------------------- properties
ResetSteps == {"reset_fallback", "reset_parse", "reset_main"}

\* the progress row an UPDATE to (0, false) leaves
ResetValue == [present |-> TRUE, recordings_count |-> 0, can_generate_next |-> FALSE]

\* C1: in every reachable state every user_task_progress row has
\* can_generate_next = true if and only if recordings_count >= 2
C1_UnlockedIffTwoRecordings ==
  \A p \in DOMAIN progress :
    progress[p].present =>
      (progress[p].can_generate_next <=> progress[p].recordings_count >= 2)

\* a row that a generation reset and a later recording insert unlocked again
C1_Witness ==
  \E p \in Users \X LangIds :
    /\ progress[p].present /\ progress[p].can_generate_next
    /\ genDone[p] >= 1 /\ recSince[p] >= 1

\* C2: for a language that already has tasks, between two consecutive
\* successful non-forced requests of one user for one language, the second
\* issued after the first completed, the user inserted at least 2
\* recordings for tasks of the language
C2_TwoRecordingsBetweenGenerations ==
  (/\ last.response.kind = "task"
   /\ ~last.force
   /\ last.taskCount > 0
   /\ last.consecutive
   /\ last.prevTaskCount > 0) => last.recordingsBetween >= 2

\* C3: a recording insert raises recordings_count of the (user, task's
\* language) row by exactly 1: a new row is (1, false), an existing row
\* becomes (old + 1, old + 1 >= 2)
C3_InsertRaisesCountByOne ==
  [][\A u \in Users, t \in TaskIds :
       RecordingInsert(u, t) =>
         LET old == progress[<<u, Task(t).language_id>>]
         IN progress'[<<u, Task(t).language_id>>] =
              IF old.present
              THEN [present |-> TRUE,
                    recordings_count |-> old.recordings_count + 1,
                    can_generate_next |-> old.recordings_count + 1 >= 2]
              ELSE [present |-> TRUE, recordings_count |-> 1,
                    can_generate_next |-> FALSE]]_vars

\* C4: a recording insert on a task of difficulty d raises the user's points
\* by exactly 10 (beginner), 20 (intermediate) or 30 (advanced) and
\* total_recordings by exactly 1
C4_InsertAwardsPointsOnce ==
  [][\A u \in Users, t \in TaskIds :
       RecordingInsert(u, t) =>
         /\ profiles'[u].points = profiles[u].points +
              (CASE Task(t).difficulty = "beginner" -> 10
                 [] Task(t).difficulty = "intermediate" -> 20
                 [] Task(t).difficulty = "advanced" -> 30)
         /\ profiles'[u].total_recordings = profiles[u].total_recordings + 1]_vars

C7_ForceBypassesThreshold ==
  [][\A s \in Slots :
       LET r == reqs[s]
       IN /\ (r.force /\ r.pc = "count" /\ reqs'[s] # r) =>
               reqs'[s].pc = "language"
          /\ (r.force /\ r.pc # "idle" /\ r.pc # "starter" /\ reqs'[s].pc = "idle") =>
               /\ last'.force
               /\ last'.response.kind \in
                    {"task", "language_not_found", "no_api_key",
                     "internal_error", "save_failed"}
          /\ (r.force /\ r.pc \in ResetSteps /\ reqs'[s] # r) =>
               /\ last'.response.kind = "task"
               /\ r.newTask \in TaskIds
               /\ last'.response.task = r.newTask]_vars

\* a forced request that returned a task in a language that has tasks and
\* no progress row of the user
C7_Witness ==
  /\ last.response.kind = "task"
  /\ last.force
  /\ last.taskCount > 0
  /\ last.response.task \in TaskIds
  /\ ~progress[<<last.user_id, last.language>>].present

C9_FirstTaskIsStarter ==
  (last.response.kind = "task" /\ last.taskCount = 0) =>
    Task(last.response.task).is_starter_task

\* C10: for a user with no recordings in a language that has no tasks the
\* request returns a task with sequence_order = 1 and english_text "Hello"
C10_FirstTaskIsHello ==
  (/\ last.response.kind = "task"
   /\ last.taskCount = 0
   /\ ~\E t \in TaskIds : /\ Task(t).language_id = last.language
                          /\ <<last.user_id, t>> \in recordings) =>
    /\ Task(last.response.task).sequence_order = 1
    /\ Task(last.response.task).english_text = "Hello"

\* C11: every language row, however it was created, has exactly 20 starter
\* tasks with sequence_order 1..20, 1-10 word/beginner, 11-15
\* phrase/intermediate and 16-20 sentence/advanced
C11_TwentyStartersPerLanguage ==
  \A l \in languages :
    LET st == {t \in TaskIds : Task(t).language_id = l.id /\ Task(t).is_starter_task}
    IN /\ Cardinality(st) = 20
       /\ \A n \in 1..20 :
            \E t \in st :
              /\ Task(t).sequence_order = n
              /\ Task(t).type = (IF n <= 10 THEN "word"
                                 ELSE IF n <= 15 THEN "phrase" ELSE "sentence")
              /\ Task(t).difficulty = (IF n <= 10 THEN "beginner"
                                       ELSE IF n <= 15 THEN "intermediate"
                                       ELSE "advanced")

\* C12: whatever the call of the text service does (throws, answers non-OK,
\* answers a body without the expected fields or with unparsable content),
\* the request goes on to insert a task, built by the fallback generator
\* with created_by_ai = false unless the service's text was accepted, and
\* is never answered with an error because of the call
C12_AiFailureFallsBack ==
  [][\A s \in Slots :
       (reqs[s].pc = "openai" /\ reqs'[s] # reqs[s]) =>
         /\ reqs'[s].pc \in {"insert_fallback", "insert_parse", "insert_main"}
         /\ reqs'[s].pc # "insert_main" => ~reqs'[s].createdByAi
         /\ last' = last]_vars

\* C13: a user may insert a further recording for a task they already
\* recorded: the insert is accepted (and then counted like any other)
C13_SecondRecordingAccepted ==
  \A u \in Users, t \in TaskIds :
    <<u, t>> \in recordings => ENABLED RecordingInsert(u, t)

\* ================================================================ referrals
\* public.referrals and its BEFORE INSERT trigger award_referral_points,
\* with each INSERT a transaction of its own (READ COMMITTED)
MaxRefTx == 3

ReferralPoints == 50

\* an id that the ?ref= parameter can carry and that has no profiles row:
\* referrer_id is "uuid not null" without a foreign key
UnknownReferrer == "u9"

ReferrerIds == AllUsers \cup {UnknownReferrer}

\* the row of insert({ referrer_id, referred_user_id }); points_awarded
\* takes its column default
NewReferral(referrer, referred) ==
  [referrer_id |-> referrer, referred_user_id |-> referred, points_awarded |-> FALSE]

IdleRefTx == [pc |-> "idle", new |-> NewReferral("", ""), locked |-> FALSE,
              result |-> "", credited |-> 0]

RefSlots == 1..MaxRefTx

\* the trigger without its first statement
NoSelfReferralCheck(new) == FALSE

\* if new.referrer_id = new.referred_user_id then raise exception
RaisesSelfReferral(new) == new.referrer_id = new.referred_user_id

\* the profiles row a transaction has updated and not yet committed is
\* locked against the UPDATE of every other transaction
ProfileLockedByOther(i, id) ==
  \E j \in RefSlots \ {i} : /\ refTx[j].locked
                            /\ refTx[j].new.referrer_id = id

\* an index entry for referred_user_id written by a transaction in flight
\* makes a second insert of the same key wait for that transaction's end
KeyPendingInOther(i, referred) ==
  \E j \in RefSlots \ {i} : /\ refTx[j].pc = "commit"
                            /\ refTx[j].new.referred_user_id = referred

\* supabase.from('referrals').insert(...) by the authenticated user
\* `referred` (RLS: auth.uid() = referred_user_id)
RefBegin(i, referrer, referred) ==
  /\ refTx[i].pc = "idle"
  /\ \A j \in 1..(i - 1) : refTx[j].pc # "idle"
  /\ refTx' = [refTx EXCEPT ![i] = [IdleRefTx EXCEPT !.pc = "trigger",
                                      !.new = NewReferral(referrer, referred)]]
  /\ UNCHANGED <<languages, generated, recordings, progress, profiles,
                 openAIApiKey, reqs, started, last, genDone, genCount, recSince,
                 referrals, recTx, sia, jobs, upserts, chat, fn>>

\* award_referral_points(): the exception aborts the statement; otherwise
\* the referrer's profiles row, if there is one, is updated (and locked)
\* and new.points_awarded becomes true
RefTrigger(i) ==
  LET new == refTx[i].new
      hasProfile == new.referrer_id \in DOMAIN profiles
  IN
    /\ refTx[i].pc = "trigger"
    /\ IF RaisesSelfReferral(new)
         THEN refTx' = [refTx EXCEPT ![i].pc = "done",
                                     ![i].result = "Cannot refer yourself"]
         ELSE IF new.points_awarded
           THEN refTx' = [refTx EXCEPT ![i].pc = "insert"]
           ELSE /\ ~ProfileLockedByOther(i, new.referrer_id)
                /\ refTx' = [refTx EXCEPT ![i].pc = "insert",
                                          ![i].locked = hasProfile,
                                          ![i].new.points_awarded = TRUE]
    /\ UNCHANGED <<languages, generated, recordings, progress, profiles,
                   openAIApiKey, reqs, started, last, genDone, genCount, recSince,
                   referrals, recTx, sia, jobs, upserts, chat, fn>>

\* the row reaches the unique index on referred_user_id: a committed row
\* with the key is a unique_violation (23505) that rolls the trigger's
\* update back
RefInsert(i) ==
  LET new == refTx[i].new
  IN
    /\ refTx[i].pc = "insert"
    /\ ~KeyPendingInOther(i, new.referred_user_id)
    /\ IF \E r \in referrals : r.referred_user_id = new.referred_user_id
         THEN refTx' = [refTx EXCEPT ![i].pc = "done", ![i].locked = FALSE,
                                     ![i].result = "23505"]
         ELSE refTx' = [refTx EXCEPT ![i].pc = "commit"]
    /\ UNCHANGED <<languages, generated, recordings, progress, profiles,
                   openAIApiKey, reqs, started, last, genDone, genCount, recSince,
                   referrals, recTx, sia, jobs, upserts, chat, fn>>

\* commit: the row and the trigger's update become visible together
RefCommit(i) ==
  LET new == refTx[i].new
  IN
    /\ refTx[i].pc = "commit"
    /\ referrals' = referrals \cup {new}
    /\ profiles' = IF refTx[i].locked
                     THEN [profiles EXCEPT ![new.referrer_id].points = @ + ReferralPoints]
                     ELSE profiles
    /\ refTx' = [refTx EXCEPT ![i].pc = "done", ![i].locked = FALSE,
                              ![i].result = "ok",
                              ![i].credited = IF refTx[i].locked THEN ReferralPoints ELSE 0]
    /\ UNCHANGED <<languages, generated, recordings, progress,
                   openAIApiKey, reqs, started, last, genDone, genCount, recSince,
                   recTx, sia, jobs, upserts, chat, fn>>

InitReferral ==
  /\ InitDb
  /\ referrals = {}
  /\ refTx = [i \in RefSlots |-> IdleRefTx]
  /\ recTx = <<>>
  /\ sia = {}
  /\ jobs = <<>>
  /\ upserts = <<>>
  /\ chat = <<>>
  /\ fn = <<>>

NextReferral ==
  \/ \E i \in RefSlots, referrer \in ReferrerIds, referred \in AllUsers :
       RefBegin(i, referrer, referred)
  \/ \E i \in RefSlots : RefTrigger(i)
  \/ \E i \in RefSlots : RefInsert(i)
  \/ \E i \in RefSlots : RefCommit(i)

SpecReferral == InitReferral /\ [][NextReferral]_vars

\* C14: a referral insert with referrer_id = referred_user_id ends in the
\* trigger with an error and commits nothing: no referral row is stored and
\* no profile's points change
C14_SelfReferralRejected ==
  [][\A i \in RefSlots :
       (/\ refTx[i].pc \notin {"idle", "done"}
        /\ refTx[i].new.referrer_id = refTx[i].new.referred_user_id
        /\ refTx'[i] # refTx[i]) =>
         /\ refTx'[i].pc = "done"
         /\ refTx'[i].result = "Cannot refer yourself"
         /\ referrals' = referrals
         /\ profiles' = profiles]_vars

C14_Witness ==
  \E i \in RefSlots :
    /\ refTx[i].pc = "done"
    /\ refTx[i].new.referrer_id = refTx[i].new.referred_user_id
    /\ refTx[i].result = "Cannot refer yourself"
    /\ \E j \in RefSlots : refTx[j].result = "ok"

\* the points that committed referral inserts naming `referred` have added
\* to profiles rows
RECURSIVE CreditedUpTo(_, _)
CreditedUpTo(n, referred) ==
  IF n = 0 THEN 0
  ELSE CreditedUpTo(n - 1, referred) +
       (IF refTx[n].new.referred_user_id = referred THEN refTx[n].credited ELSE 0)

CreditedFor(referred) == CreditedUpTo(MaxRefTx, referred)

\* C15: for every referred user, whatever referral inserts have run one
\* after the other or at the same time, at most one referral row has that
\* referred_user_id, and the points credited to referrers because of that
\* user are exactly 50 once the row exists, never more
C15_OneRowFiftyPoints ==
  \A v \in AllUsers :
    LET rows == {r \in referrals : r.referred_user_id = v}
    IN /\ Cardinality(rows) <= 1
       /\ CreditedFor(v) = ReferralPoints * Cardinality(rows)

\* ================================================= recording inserts as
\* transactions: the INSERT INTO public.recordings of handleSubmitRecording
\* with its two AFTER INSERT row triggers, each run of update_user_progress
\* a step of its own, and the commit (READ COMMITTED)
MaxRecTx == 3

RecTxSlots == 1..MaxRecTx

\* the tasks the concurrent submissions record: the last word, phrase and
\* sentence of the starter sequence
RecTxTasks == {OpenCandidates[i] : i \in 1..3}

\* inflight: the inserts that had begun and not ended when this one began;
\* execs: the runs of the upsert this insert has made; inserted: one of
\* them took the INSERT branch; row, profile: its uncommitted versions
IdleRecTx ==
  [pc |-> "idle", user_id |-> "", task_id |-> 0, inflight |-> 0, execs |-> 0,
   inserted |-> FALSE, row |-> NoProgress,
   profile |-> [total_recordings |-> 0, points |-> 0], result |-> ""]

TriggerNames == <<"on_recording_created", "trg_update_user_progress">>

RecTxActive(i) == recTx[i].pc \notin {"idle", "done"}

\* the (user, language) key of the progress row an insert touches
RecTxKey(i) == <<recTx[i].user_id, Task(recTx[i].task_id).language_id>>

\* a database without row locks
NoRowLock(i, p) == FALSE

\* ON CONFLICT ... DO UPDATE locks the row it inserts or updates until the
\* transaction ends: the upsert of another transaction waits
ProgressLockedByOther(i, p) ==
  \E j \in RecTxSlots \ {i} : /\ RecTxActive(j)
                              /\ recTx[j].execs > 0
                              /\ RecTxKey(j) = p

\* the recordings key (user_id, task_id) written by an insert in flight
RecordingPendingInOther(i, u, t) ==
  \E j \in RecTxSlots \ {i} : /\ RecTxActive(j)
                              /\ recTx[j].user_id = u
                              /\ recTx[j].task_id = t

\* INSERT INTO public.recordings: UNIQUE(user_id, task_id) fails the insert
\* when the row is committed and makes it wait while the key is pending
RecTxBegin(i, u, t) ==
  /\ recTx[i].pc = "idle"
  /\ \A j \in 1..(i - 1) : recTx[j].pc # "idle"
  /\ t \in TaskIds
  /\ ~RecordingPendingInOther(i, u, t)
  /\ recTx' = [recTx EXCEPT ![i] =
       IF <<u, t>> \in recordings
       THEN [IdleRecTx EXCEPT !.pc = "done", !.user_id = u, !.task_id = t,
                              !.result = "23505"]
       ELSE [IdleRecTx EXCEPT !.pc = TriggerNames[1], !.user_id = u, !.task_id = t,
                              !.inflight = Cardinality({j \in RecTxSlots : RecTxActive(j)})]]
  /\ UNCHANGED <<languages, generated, recordings, progress, profiles,
                 openAIApiKey, reqs, started, last, genDone, genCount, recSince,
                 referrals, refTx, sia, jobs, upserts, chat, fn>>

\* one AFTER INSERT trigger runs update_user_progress: the upsert on the
\* latest committed row, or on the version this transaction wrote before,
\* then the UPDATE of the user's profiles row
RecTxTrigger(i) ==
  LET u == recTx[i].user_id
      t == recTx[i].task_id
      p == RecTxKey(i)
      mine == recTx[i].execs > 0
      row == IF mine THEN recTx[i].row ELSE progress[p]
      profile == IF mine THEN recTx[i].profile ELSE profiles[u]
      db == update_user_progress(
              [progress |-> [progress EXCEPT ![p] = row],
               profiles |-> [profiles EXCEPT ![u] = profile]], tasks, u, t)
  IN
    /\ recTx[i].pc \in {TriggerNames[1], TriggerNames[2]}
    /\ ~ProgressLockedByOther(i, p)
    /\ recTx' = [recTx EXCEPT
         ![i].pc = IF @ = TriggerNames[1] THEN TriggerNames[2] ELSE "commit",
         ![i].execs = @ + 1,
         ![i].inserted = @ \/ ~row.present,
         ![i].row = db.progress[p],
         ![i].profile = db.profiles[u]]
    /\ UNCHANGED <<languages, generated, recordings, progress, profiles,
                   openAIApiKey, reqs, started, last, genDone, genCount, recSince,
                   referrals, refTx, sia, jobs, upserts, chat, fn>>

\* commit: the recording row and the rows the triggers wrote become visible
RecTxCommit(i) ==
  LET u == recTx[i].user_id
      p == RecTxKey(i)
  IN
    /\ recTx[i].pc = "commit"
    /\ recordings' = recordings \cup {<<u, recTx[i].task_id>>}
    /\ progress' = [progress EXCEPT ![p] = recTx[i].row]
    /\ profiles' = [profiles EXCEPT ![u] = recTx[i].profile]
    /\ recSince' = [recSince EXCEPT ![p] = @ + 1]
    /\ recTx' = [recTx EXCEPT ![i].pc = "done", ![i].result = "ok"]
    /\ UNCHANGED <<languages, generated, openAIApiKey, reqs, started, last,
                   genDone, genCount, referrals, refTx, sia, jobs, upserts, chat, fn>>

\* the database after the migrations, before any user recorded anything
InitUpsert ==
  /\ languages = {[id |-> SeedLangId, name |-> "Spanish", code |-> "es"]}
  /\ generated = <<>>
  /\ recordings = {}
  /\ progress = EmptyDb.progress
  /\ profiles = EmptyDb.profiles
  /\ openAIApiKey \in BOOLEAN
  /\ reqs = [s \in 1..MaxInFlight |-> IdleReq]
  /\ started = 0
  /\ last = IdleReq
  /\ genDone = [p \in Users \X LangIds |-> 0]
  /\ genCount = [p \in Users \X LangIds |-> 0]
  /\ recSince = [p \in Users \X LangIds |-> 0]
  /\ referrals = {}
  /\ refTx = <<>>
  /\ recTx = [i \in RecTxSlots |-> IdleRecTx]
  /\ sia = {}
  /\ jobs = <<>>
  /\ upserts = <<>>
  /\ chat = <<>>
  /\ fn = <<>>

NextUpsert ==
  \/ \E i \in RecTxSlots, u \in Users, t \in RecTxTasks : RecTxBegin(i, u, t)
  \/ \E i \in RecTxSlots : RecTxTrigger(i)
  \/ \E i \in RecTxSlots : RecTxCommit(i)

SpecUpsert == InitUpsert /\ [][NextUpsert]_vars

\* the runs of the upsert made for the key p by the inserts among 1..n that
\* have committed
RECURSIVE ExecsUpTo(_, _)
ExecsUpTo(n, p) ==
  IF n = 0 THEN 0
  ELSE ExecsUpTo(n - 1, p) +
       (IF recTx[n].result = "ok" /\ RecTxKey(n) = p THEN recTx[n].execs ELSE 0)

\* the committed inserts that created a progress row for the key p
RowsCreated(p) ==
  {i \in RecTxSlots : /\ recTx[i].result = "ok"
                      /\ RecTxKey(i) = p
                      /\ recTx[i].inserted}

\* C16: whatever the interleaving of the k runs of the progress upsert for
\* one (user, language) whose transactions have committed, with no
\* generation in between, one progress row exists and its recordings_count
\* has grown by exactly k: no increment is lost, no second row is created
C16_UpsertLosesNothing ==
  \A p \in Users \X LangIds :
    LET k == ExecsUpTo(MaxRecTx, p)
    IN /\ progress[p].recordings_count = k
       /\ progress[p].present <=> k > 0
       /\ Cardinality(RowsCreated(p)) = IF k > 0 THEN 1 ELSE 0

C16_Witness ==
  LET p == <<"u1", SeedLangId>>
  IN /\ \A i \in RecTxSlots : recTx[i].result = "ok" /\ RecTxKey(i) = p
     /\ \E i \in RecTxSlots : recTx[i].inflight = MaxRecTx - 1
     /\ progress[p].recordings_count = ExecsUpTo(MaxRecTx, p)
     /\ ExecsUpTo(MaxRecTx, p) > MaxRecTx

\* ======================================= racing generate-task requests
\* the requests of one user for the seed language that are in flight at once
MaxRacers == 2

\* every user has recorded every starter task: the progress row of the seed
\* language is unlocked
InitRace ==
  /\ languages = {[id |-> SeedLangId, name |-> "Spanish", code |-> "es"]}
  /\ generated = <<>>
  /\ recordings = AllUsers \X (1..StarterCount)
  /\ progress = [p \in AllUsers \X LangIds |->
                   StarterDb[<<p[1], {}, StarterCount>>].progress[p]]
  /\ profiles = [u \in AllUsers |-> StarterDb[<<u, {}, StarterCount>>].profiles[u]]
  /\ openAIApiKey \in BOOLEAN
  /\ reqs = [s \in 1..MaxRacers |-> IdleReq]
  /\ started = 0
  /\ last = IdleReq
  /\ genDone = [p \in Users \X LangIds |-> 0]
  /\ genCount = [p \in Users \X LangIds |-> 0]
  /\ recSince = [p \in Users \X LangIds |-> 0]
  /\ NoExt

\* the handler's steps for requests without force; no recording is inserted
NextRace ==
  \/ \E s \in Slots, u \in Users : GenStart(s, u, SeedLangId, FALSE)
  \/ \E s \in Slots : GenStarterCheck(s)
  \/ \E s \in Slots : GenTaskCount(s)
  \/ \E s \in Slots : GenProgressCheck(s)
  \/ \E s \in Slots : GenLoadLanguage(s)
  \/ \E s \in Slots : GenPrepare(s)
  \/ \E s \in Slots : GenCallOpenAI(s)
  \/ \E s \in Slots, d \in Difficulties, ok \in BOOLEAN : GenInsertFallback(s, d, ok)
  \/ \E s \in Slots, d \in Difficulties, ok \in BOOLEAN : GenInsertParseFallback(s, d, ok)
  \/ \E s \in Slots, d \in Difficulties, ok \in BOOLEAN : GenInsertMain(s, d, ok)
  \/ \E s \in Slots : GenResetFallback(s)
  \/ \E s \in Slots : GenResetParseFallback(s)
  \/ \E s \in Slots : GenResetMain(s)

SpecRace == InitRace /\ [][NextRace]_vars

InsertSteps == {"insert_fallback", "insert_parse", "insert_main"}

\* C18: when the task insert of a request fails, the request returns the
\* error 'Failed to save task', no task row is added and the progress rows
\* keep their recordings_count and can_generate_next, so that a retry of the
\* same request can pass the check again
C18_InsertFailureKeepsProgress ==
  [][\A s \in Slots :
       (reqs[s].pc \in InsertSteps /\ reqs'[s].pc = "idle") =>
         /\ last'.response.kind = "save_failed"
         /\ last'.user_id = reqs[s].user_id
         /\ generated' = generated
         /\ progress' = progress]_vars

C18_Witness ==
  /\ last.response.kind = "save_failed"
  /\ ~last.force
  /\ last.taskCount > 0
  /\ last.language \in LangIds
  /\ progress[<<last.user_id, last.language>>].can_generate_next
  /\ \A s \in Slots : reqs[s].pc = "idle"

\* ============================================================ archive-to-sia
\* handleSubmitRecording inserts the recording and then invokes
\* archive-to-sia without awaiting it; the function's awaits are the steps
MaxJobs == 2

\* the content identifier of an S5 answer that has one
SiaCid == 1

\* new Date().toISOString()
ArchivedAt == 1

NewJob(id) == [pc |-> "start", recording_id |-> id, siaCid |-> NULL, result |-> ""]

Jobs == DOMAIN jobs

ArchiveFailures ==
  {"not_configured", "missing_field", "download_failed", "s5_upload_failed",
   "missing_cid", "update_failed", "thrown"}

\* a function that takes every answer of the portal for a content identifier
AnyS5Result(siaCid) == TRUE

\* if (!siaCid) ... 502 'S5 response did not include a CID'
HasCid(siaCid) == siaCid # NULL

\* the job ends with the given response
JobEnds(j, result) == jobs' = [jobs EXCEPT ![j].pc = "done", ![j].result = result]

\* insert the recording, then supabase.functions.invoke('archive-to-sia')
SubmitRecording(u, t) ==
  /\ Len(jobs) < MaxJobs
  /\ RecordingRowInsert(u, t)
  /\ jobs' = Append(jobs, NewJob(<<u, t>>))
  /\ UNCHANGED <<referrals, refTx, recTx, sia>>

\* the environment and the request body are checked: a missing S5 setting
\* throws, an empty audio_url (pub?.publicUrl || '') is a 400
ArchiveStart(j, outcome) ==
  /\ jobs[j].pc = "start"
  /\ IF outcome = "ok" THEN jobs' = [jobs EXCEPT ![j].pc = "download"]
     ELSE JobEnds(j, outcome)
  /\ UNCHANGED <<languages, generated, recordings, progress, profiles,
                 openAIApiKey, reqs, started, last, genDone, genCount, recSince,
                 referrals, refTx, recTx, sia, upserts, chat, fn>>

\* supabase.storage.from("recordings").download(file_path)
ArchiveDownload(j, ok) ==
  /\ jobs[j].pc = "download"
  /\ IF ok THEN jobs' = [jobs EXCEPT ![j].pc = "upload"]
     ELSE JobEnds(j, "download_failed")
  /\ UNCHANGED <<languages, generated, recordings, progress, profiles,
                 openAIApiKey, reqs, started, last, genDone, genCount, recSince,
                 referrals, refTx, recTx, sia, upserts, chat, fn>>

\* fetch(uploadUrl): it throws, or answers not ok, or answers with a body
\* whose cid / hash / CID is siaCid (NULL: none of them)
ArchiveUpload(j, outcome, siaCid) ==
  /\ jobs[j].pc = "upload"
  /\ CASE outcome = "throws" -> JobEnds(j, "thrown")
       [] outcome = "not_ok" -> JobEnds(j, "s5_upload_failed")
       [] OTHER -> IF HasCid(siaCid)
                     THEN jobs' = [jobs EXCEPT ![j].pc = "update", ![j].siaCid = siaCid]
                     ELSE JobEnds(j, "missing_cid")
  /\ UNCHANGED <<languages, generated, recordings, progress, profiles,
                 openAIApiKey, reqs, started, last, genDone, genCount, recSince,
                 referrals, refTx, recTx, sia, upserts, chat, fn>>

\* .from("recordings").update({ sia_cid, sia_archived_at }).eq("id", ...)
ArchiveUpdate(j, ok) ==
  /\ jobs[j].pc = "update"
  /\ IF ok
       THEN /\ sia' = {x \in sia : x.id # jobs[j].recording_id} \cup
                      {[id |-> jobs[j].recording_id, sia_cid |-> jobs[j].siaCid,
                        sia_archived_at |-> ArchivedAt]}
            /\ JobEnds(j, "success")
       ELSE /\ sia' = sia
            /\ JobEnds(j, "update_failed")
  /\ UNCHANGED <<languages, generated, recordings, progress, profiles,
                 openAIApiKey, reqs, started, last, genDone, genCount, recSince,
                 referrals, refTx, recTx, upserts, chat, fn>>

InitArchive == Init

NextArchive ==
  \/ \E u \in Users, t \in TaskIds : SubmitRecording(u, t)
  \/ \E j \in Jobs, outcome \in {"ok", "not_configured", "missing_field"} :
       ArchiveStart(j, outcome)
  \/ \E j \in Jobs, ok \in BOOLEAN : ArchiveDownload(j, ok)
  \/ \E j \in Jobs, outcome \in {"throws", "not_ok", "json"}, siaCid \in {NULL, SiaCid} :
       ArchiveUpload(j, outcome, siaCid)
  \/ \E j \in Jobs, ok \in BOOLEAN : ArchiveUpdate(j, ok)

SpecArchive == InitArchive /\ [][NextArchive]_vars

\* the archival columns of the recordings row id, rows being the rows an
\* update has written: (NULL, NULL) until then
SiaColumns(rows, id) ==
  IF \E x \in rows : x.id = id
  THEN LET x == CHOOSE x \in rows : x.id = id
       IN <<x.sia_cid, x.sia_archived_at>>
  ELSE <<NULL, NULL>>

\* C19: no step of an archival changes the recordings rows, the progress
\* rows or the profiles; the recording of a submission whose archival
\* failed stays stored with sia_cid and sia_archived_at unset; and the two
\* columns are set together, only for an upload that returned a content
\* identifier
C19_ArchivalFailureKeepsRecording ==
  [][/\ (\E j \in Jobs : jobs'[j] # jobs[j]) =>
          /\ recordings' = recordings
          /\ progress' = progress
          /\ profiles' = profiles
     /\ \A j \in DOMAIN jobs' :
          /\ jobs'[j].recording_id \in recordings'
          /\ jobs'[j].result \in ArchiveFailures =>
               SiaColumns(sia', jobs'[j].recording_id) = <<NULL, NULL>>
          /\ LET c == SiaColumns(sia', jobs'[j].recording_id)
             IN /\ c[1] = NULL <=> c[2] = NULL
                /\ c[1] # NULL => jobs'[j].result = "success" /\ c[1] = jobs'[j].siaCid]_vars

C19_Witness ==
  /\ Len(jobs) = MaxJobs
  /\ jobs[1].result \in ArchiveFailures
  /\ jobs[2].result = "success"
  /\ jobs[1].recording_id \in recordings
  /\ SiaColumns(sia, jobs[1].recording_id) = <<NULL, NULL>>
  /\ SiaColumns(sia, jobs[2].recording_id) = <<SiaCid, ArchivedAt>>

\* ================================================================= liveness
\* the steps of the handler run s that the runtime and the database make
\* by themselves: every await of the handler except the fetch to the
\* text-generation service, whose answer nothing in the code enforces
HandlerStep(s) ==
  \/ GenStarterCheck(s)
  \/ GenTaskCount(s)
  \/ GenProgressCheck(s)
  \/ GenLoadLanguage(s)
  \/ \E csvOk \in BOOLEAN : GenGlottolog(s, csvOk)
  \/ GenPrepare(s)
  \/ \E d \in Difficulties, ok \in BOOLEAN : GenInsertFallback(s, d, ok)
  \/ \E d \in Difficulties, ok \in BOOLEAN : GenInsertParseFallback(s, d, ok)
  \/ \E d \in Difficulties, ok \in BOOLEAN : GenInsertMain(s, d, ok)
  \/ GenResetFallback(s)
  \/ GenResetParseFallback(s)
  \/ GenResetMain(s)

\* a handler run whose await has resolved goes on; the fetch to the
\* text-generation service has no signal and no timer, so that it resolves
\* is not assumed
SpecLive ==
  /\ Init
  /\ [][Next]_vars
  /\ \A s \in 1..MaxInFlight : WF_vars(HandlerStep(s))

\* C20: every generate-task request eventually returns a response, also
\* when the text-generation service never answers
C20_RequestEventuallyReturns ==
  \A s \in 1..MaxInFlight : (reqs[s].pc # "idle") ~> (reqs[s].pc = "idle")

\* =========================================================== whole system
\* recording inserts with and without a reachable archive-to-sia, referral
\* inserts, generate-task requests and archival steps in one specification;
\* the numbers of referral inserts, requests and archivals are kept small
SystemRefTx == 1

SystemRequests == 1

SystemJobs == 1

InitSystem == InitReferral

NextSystem ==
  \/ \E u \in Users, t \in TaskIds : RecordingInsert(u, t)
  \/ \E u \in Users, t \in TaskIds :
       Len(jobs) < SystemJobs /\ SubmitRecording(u, t)
  \/ \E j \in Jobs, outcome \in {"ok", "not_configured", "missing_field"} :
       ArchiveStart(j, outcome)
  \/ \E j \in Jobs, ok \in BOOLEAN : ArchiveDownload(j, ok)
  \/ \E j \in Jobs, outcome \in {"throws", "not_ok", "json"}, siaCid \in {NULL, SiaCid} :
       ArchiveUpload(j, outcome, siaCid)
  \/ \E j \in Jobs, ok \in BOOLEAN : ArchiveUpdate(j, ok)
  \/ \E i \in 1..SystemRefTx, referrer \in ReferrerIds, referred \in AllUsers :
       RefBegin(i, referrer, referred)
  \/ \E i \in RefSlots : RefTrigger(i)
  \/ \E i \in RefSlots : RefInsert(i)
  \/ \E i \in RefSlots : RefCommit(i)
  \/ \E s \in Slots, u \in Users, f \in BOOLEAN :
       started < SystemRequests /\ GenStart(s, u, SeedLangId, f)
  \/ \E s \in Slots : GenStarterCheck(s)
  \/ \E s \in Slots : GenTaskCount(s)
  \/ \E s \in Slots : GenProgressCheck(s)
  \/ \E s \in Slots : GenLoadLanguage(s)
  \/ \E s \in Slots : GenPrepare(s)
  \/ \E s \in Slots : GenCallOpenAI(s)
  \/ \E s \in Slots, d \in Difficulties, ok \in BOOLEAN : GenInsertFallback(s, d, ok)
  \/ \E s \in Slots, d \in Difficulties, ok \in BOOLEAN : GenInsertParseFallback(s, d, ok)
  \/ \E s \in Slots, d \in Difficulties, ok \in BOOLEAN : GenInsertMain(s, d, ok)
  \/ \E s \in Slots : GenResetFallback(s)
  \/ \E s \in Slots : GenResetParseFallback(s)
  \/ \E s \in Slots : GenResetMain(s)

SpecSystem == InitSystem /\ [][NextSystem]_vars

\* C21: across every step of the system (recording inserts, referral
\* inserts, generation requests, archival steps) no profile's points and no
\* profile's total_recordings decrease
C21_ProfileCountersNeverDecrease ==
  [][\A u \in AllUsers :
       /\ profiles'[u].points >= profiles[u].points
       /\ profiles'[u].total_recordings >= profiles[u].total_recordings]_vars

C21_Witness ==
  /\ \E i \in RefSlots : refTx[i].credited = ReferralPoints /\ refTx[i].new.referrer_id = "u1"
  /\ \E j \in Jobs : jobs[j].result = "success"
  /\ last.response.kind = "task"

\* ========================================================== upsert-language
\* the runs of the upsert-language function; each await is a step
MaxUpserts == 2

UpsertCodes == {"", "es", "spa", GlottoCode}

UpsertNames == {"Spanish", GlottoName}

\* existing: the id of the row found by name; language: the id of the row
\* in the response
NewUpsert(code, name) ==
  [pc |-> "validate", code |-> code, name |-> name, existing |-> "",
   result |-> "", language |-> ""]

Upserts == DOMAIN upserts

\* return new Response(...) with the body {language} or {error}
UpsertEnds(k, result, id) ==
  upserts' = [upserts EXCEPT ![k].pc = "done", ![k].result = result,
                              ![k].language = id]

\* the function is invoked with the body {code, name}
UpsStart(code, name) ==
  /\ Len(upserts) < MaxUpserts
  /\ upserts' = Append(upserts, NewUpsert(code, name))
  /\ UNCHANGED <<languages, generated, recordings, progress, profiles,
                 openAIApiKey, reqs, started, last, genDone, genCount, recSince,
                 referrals, refTx, recTx, sia, jobs, chat, fn>>

\* if (!code || !name) ... 400
UpsValidate(k) ==
  /\ upserts[k].pc = "validate"
  /\ IF upserts[k].code = "" \/ upserts[k].name = ""
       THEN UpsertEnds(k, "Missing required fields: code and name", "")
       ELSE upserts' = [upserts EXCEPT ![k].pc = "by_code"]
  /\ UNCHANGED <<languages, generated, recordings, progress, profiles,
                 openAIApiKey, reqs, started, last, genDone, genCount, recSince,
                 referrals, refTx, recTx, sia, jobs, chat, fn>>

\* Try to find by code first
UpsFindByCode(k) ==
  /\ upserts[k].pc = "by_code"
  /\ LET existingByCode == {l \in languages : l.code = upserts[k].code}
     IN IF existingByCode # {}
          THEN UpsertEnds(k, "ok", (CHOOSE l \in existingByCode : TRUE).id)
          ELSE upserts' = [upserts EXCEPT ![k].pc = "by_name"]
  /\ UNCHANGED <<languages, generated, recordings, progress, profiles,
                 openAIApiKey, reqs, started, last, genDone, genCount, recSince,
                 referrals, refTx, recTx, sia, jobs, chat, fn>>

\* Then try to find by name; a row whose code is empty or another one goes
\* to the update
UpsFindByName(k) ==
  /\ upserts[k].pc = "by_name"
  /\ LET existingByName == {l \in languages : l.name = upserts[k].name}
     IN IF existingByName # {}
          THEN LET l == CHOOSE l \in existingByName : TRUE
               IN IF l.code = "" \/ l.code # upserts[k].code
                    THEN upserts' = [upserts EXCEPT ![k].pc = "update",
                                                    ![k].existing = l.id]
                    ELSE UpsertEnds(k, "ok", l.id)
          ELSE upserts' = [upserts EXCEPT ![k].pc = "insert"]
  /\ UNCHANGED <<languages, generated, recordings, progress, profiles,
                 openAIApiKey, reqs, started, last, genDone, genCount, recSince,
                 referrals, refTx, recTx, sia, jobs, chat, fn>>

\* .update({ code }).eq("id", existingByName.id).select("*").single():
\* code is UNIQUE, the violation is thrown and caught as a 500
UpsUpdate(k) ==
  /\ upserts[k].pc = "update"
  /\ LET id == upserts[k].existing
         code == upserts[k].code
     IN IF \E l \in languages : l.id # id /\ l.code = code
          THEN /\ UpsertEnds(k, "error", "")
               /\ UNCHANGED languages
          ELSE /\ languages' = {IF l.id = id THEN [l EXCEPT !.code = code] ELSE l :
                                  l \in languages}
               /\ UpsertEnds(k, "ok", id)
  /\ UNCHANGED <<generated, recordings, progress, profiles,
                 openAIApiKey, reqs, started, last, genDone, genCount, recSince,
                 referrals, refTx, recTx, sia, jobs, chat, fn>>

\* .insert({ code, name, is_popular: false }): name and code are UNIQUE, the
\* violation is thrown and caught as a 500
UpsInsert(k) ==
  /\ upserts[k].pc = "insert"
  /\ LET code == upserts[k].code
         name == upserts[k].name
     IN IF \E l \in languages : l.name = name \/ l.code = code
          THEN /\ UpsertEnds(k, "error", "")
               /\ UNCHANGED languages
          ELSE /\ languages' = languages \cup
                                 {[id |-> NewLangId, name |-> name, code |-> code]}
               /\ UpsertEnds(k, "ok", NewLangId)
  /\ UNCHANGED <<generated, recordings, progress, profiles,
                 openAIApiKey, reqs, started, last, genDone, genCount, recSince,
                 referrals, refTx, recTx, sia, jobs, chat, fn>>

\* every user has recorded every starter task, on a deployment without
\* OPENAI_API_KEY
InitLanguage ==
  /\ languages = {[id |-> SeedLangId, name |-> "Spanish", code |-> "es"]}
  /\ generated = <<>>
  /\ recordings = AllUsers \X (1..StarterCount)
  /\ progress = [p \in AllUsers \X LangIds |->
                   StarterDb[<<p[1], {}, StarterCount>>].progress[p]]
  /\ profiles = [u \in AllUsers |-> StarterDb[<<u, {}, StarterCount>>].profiles[u]]
  /\ openAIApiKey = FALSE
  /\ reqs = [s \in 1..MaxInFlight |-> IdleReq]
  /\ started = 0
  /\ last = IdleReq
  /\ genDone = [p \in Users \X LangIds |-> 0]
  /\ genCount = [p \in Users \X LangIds |-> 0]
  /\ recSince = [p \in Users \X LangIds |-> 0]
  /\ NoExt

\* upsert-language runs next to generate-task requests, which resolve or
\* create their language before they look for the API key
NextLanguage ==
  \/ \E code \in UpsertCodes, name \in UpsertNames : UpsStart(code, name)
  \/ \E k \in Upserts : UpsValidate(k)
  \/ \E k \in Upserts : UpsFindByCode(k)
  \/ \E k \in Upserts : UpsFindByName(k)
  \/ \E k \in Upserts : UpsUpdate(k)
  \/ \E k \in Upserts : UpsInsert(k)
  \/ \E s \in Slots, u \in Users, lid \in {SeedLangId, GlottoCode}, f \in BOOLEAN :
       GenStart(s, u, lid, f)
  \/ \E s \in Slots : GenStarterCheck(s)
  \/ \E s \in Slots : GenTaskCount(s)
  \/ \E s \in Slots : GenProgressCheck(s)
  \/ \E s \in Slots : GenLoadLanguage(s)
  \/ \E s \in Slots, csvOk \in BOOLEAN : GenGlottolog(s, csvOk)
  \/ \E s \in Slots : GenPrepare(s)

SpecLanguage == InitLanguage /\ [][NextLanguage]_vars

\* C22: once a language row exists, no step of upsert-language or
\* generate-task deletes it or changes its id or name, and a row with a
\* non-empty code keeps that code
C22_LanguageRowImmutable ==
  [][\A l \in languages :
       \E m \in languages' : /\ m.id = l.id
                             /\ m.name = l.name
                             /\ l.code # "" => m.code = l.code]_vars

\* the category test of the generator: the text passes isNatural for the type
OfCategory(text, type) == Natural[<<Chars[text], type>>]

\* C23: the task persisted by the fallback after a non-OK answer of the AI
\* service has a text of the requested category that equals, trimmed and
\* case-folded, none of the recent task texts of the language the request
\* read, also when the 12 fallback attempts were all rejected
C23_FallbackOfCategoryAndNew ==
  [][\A s \in Slots :
       (reqs[s].pc = "insert_fallback" /\ generated' # generated) =>
         LET t == generated'[Len(generated')]
         IN /\ OfCategory(t.english_text, t.type)
            /\ Norm[t.english_text] \notin UsedTexts(t.language_id, reqs[s].recentTasks)]_vars

\* ---------------------------------------------------------------------------
\* The deduplication filter on its own: one request's candidate and used-text
\* set, and the results of the calls made with them.

MaxCalls == 2

\* candidate strings: an exact duplicate up to case and spaces, near
\* duplicates at 5/6 and exactly 4/5, strings without tokens, unrelated ones
SimilarCandidates ==
  {"Thank you", "Thank  you", "hello ", "River", "?",
   "Thank you very much indeed", "I would like some water.", "Where is the river?"}

\* usedTexts holds english_text.toLowerCase().trim() of earlier tasks
SimilarUsed ==
  {Norm[t] : t \in {"Thank you", "Hello", "Thank you very much.",
                    "I would like some water please", "River", "!"}}

\* the variables other than fn
base ==
  <<languages, generated, recordings, progress, profiles, openAIApiKey,
    reqs, started, last, genDone, genCount, recSince,
    referrals, refTx, recTx, sia, jobs, upserts, chat>>

\* nothing of the extensions but the helper's arguments
NoExtButFn ==
  /\ referrals = {}
  /\ refTx = <<>>
  /\ recTx = <<>>
  /\ sia = {}
  /\ jobs = <<>>
  /\ upserts = <<>>
  /\ chat = <<>>

InitSimilar ==
  /\ InitDb
  /\ NoExtButFn
  /\ fn \in [candidate : SimilarCandidates, usedTexts : SUBSET SimilarUsed,
             results : {<<>>}]

\* one call isTooSimilar(candidate) within the request
SimilarCall ==
  /\ Len(fn.results) < MaxCalls
  /\ fn' = [fn EXCEPT !.results =
              Append(@, isTooSimilar(Chars[fn.candidate], fn.usedTexts))]
  /\ UNCHANGED base

NextSimilar == SimilarCall

SpecSimilar == InitSimilar /\ [][NextSimilar]_vars

\* Jaccard similarity of the token sets of two strings is at least 0.8
NearDuplicate(a, b) ==
  LET A == tokenize(a)
      B == tokenize(b)
  IN /\ A \cup B # {}
     /\ 5 * Cardinality(A \cap B) >= 4 * Cardinality(A \cup B)

\* C24: isTooSimilar rejects exactly when the trimmed, lower-cased candidate
\* is in the used-text set or the Jaccard similarity of the token sets is at
\* least 0.8 for some used text, and every call with the same candidate and
\* set gives the same answer.
C24_TooSimilarIsExactOrJaccard ==
  \A i \in 1..Len(fn.results) :
    /\ fn.results[i] =
         (\/ toLowerCase(trim(Chars[fn.candidate])) \in fn.usedTexts
          \/ \E t \in fn.usedTexts : NearDuplicate(Chars[fn.candidate], t))
    /\ fn.results[i] = fn.results[1]

\* two calls rejected a candidate that is no exact duplicate and whose
\* closest used text is at similarity exactly 4/5
C24_Witness ==
  /\ Len(fn.results) = MaxCalls
  /\ fn.results[1]
  /\ fn.candidate = "Thank you very much indeed"
  /\ fn.usedTexts = {Norm["Thank you very much."], Norm["Hello"]}

\* C25: a task stored with created_by_ai = true has a text that the
\* deduplication filter accepts: neither an exact duplicate nor a
\* near-duplicate (Jaccard >= 0.8) of a used text of the request's language.
C25_AiTextPassesDedupFilter ==
  [][\A s \in Slots :
       (reqs[s].pc = "insert_main" /\ generated' # generated) =>
         LET t == generated'[Len(generated')]
         IN t.created_by_ai =>
              ~isTooSimilar(Chars[t.english_text],
                            UsedTexts(t.language_id, reqs[s].recentTasks))]_vars

\* ---------------------------------------------------------------------------
\* The naturalness check on its own: one text and one category, and the
\* results of the calls made with them.

\* the strings of the model and a sentence of 16 words
NaturalChars ==
  ("I go to the big old red bus at the new far end of my road." :>
     <<"I", " ", "g", "o", " ", "t", "o", " ", "t", "h", "e", " ", "b",
     "i", "g", " ", "o", "l", "d", " ", "r", "e", "d", " ", "b", "u", "s",
     " ", "a", "t", " ", "t", "h", "e", " ", "n", "e", "w", " ", "f", "a",
     "r", " ", "e", "n", "d", " ", "o", "f", " ", "m", "y", " ", "r", "o",
     "a", "d", ".">>) @@ Chars

NaturalTexts ==
  {"", "Hello", "River", "hello ", "Thank you", "Thank  you", "I am fine",
   "Nice to meet you", "My name is John", "The weather is nice today",
   "I need a doctor.", "Can you help me?", "Where is the river?",
   "What time is it?", "We will visit the market tomorrow.",
   "I will visit the food today.", "My house is near the river.",
   "I would like some water please",
   "I go to the big old red bus at the new far end of my road."}

InitNatural ==
  /\ InitDb
  /\ NoExtButFn
  /\ fn \in [text : NaturalTexts, type : TaskTypes, results : {<<>>}]

\* one call isNatural(text, type)
NaturalCall ==
  /\ Len(fn.results) < MaxCalls
  /\ fn' = [fn EXCEPT !.results = Append(@, isNatural(NaturalChars[fn.text], fn.type))]
  /\ UNCHANGED base

NextNatural == NaturalCall

SpecNatural == InitNatural /\ [][NextNatural]_vars

\* the number of whitespace-separated tokens of a string
TokenCount(s) == Cardinality(Runs(s))

\* C26: a text that isNatural accepts for category 'sentence' has between 4
\* and 14 whitespace-separated tokens, ends in '.', '?' or '!', contains a
\* personal pronoun and matches no known-bad pattern.
C26_NaturalSentenceShape ==
  \A i \in 1..Len(fn.results) :
    (fn.type = "sentence" /\ fn.results[i]) =>
      LET t == NaturalChars[fn.text]
      IN /\ TokenCount(t) >= 4
         /\ TokenCount(t) <= 14
         /\ Len(t) > 0 /\ t[Len(t)] \in {".", "?", "!"}
         /\ \E p \in Pronouns : WordMatch(t, p)
         /\ \A r \in NATURAL_BAD_PATTERNS : ~WordMatch(t, r)

\* ---------------------------------------------------------------------------
\* A recording that commits while a request is in flight: every user has
\* recorded every starter task, and an earlier request of OtherUser has
\* stored one task that no one has recorded yet.

EarlierTask ==
  [english_text |-> "River", type |-> "word", difficulty |-> "beginner",
   language_id |-> SeedLangId, sequence_order |-> NULL,
   is_starter_task |-> FALSE, created_by_ai |-> TRUE]

InitInFlight ==
  /\ languages = {[id |-> SeedLangId, name |-> "Spanish", code |-> "es"]}
  /\ generated = <<EarlierTask>>
  /\ recordings = AllUsers \X (1..StarterCount)
  /\ progress = [p \in AllUsers \X LangIds |->
                   IF p = <<OtherUser, SeedLangId>>
                   THEN ResetValue
                   ELSE StarterDb[<<p[1], {}, StarterCount>>].progress[p]]
  /\ profiles = [u \in AllUsers |-> StarterDb[<<u, {}, StarterCount>>].profiles[u]]
  /\ openAIApiKey \in BOOLEAN
  /\ reqs = [s \in 1..MaxInFlight |-> IdleReq]
  /\ started = 0
  /\ last = IdleReq
  /\ genDone = [p \in Users \X LangIds |-> 0]
  /\ genCount = [p \in Users \X LangIds |-> 0]
  /\ recSince = [p \in Users \X LangIds |-> 0]
  /\ NoExt

SpecInFlight == InitInFlight /\ [][Next]_vars

\* C27: the reset of a request that read the progress row of (U, L) leaves
\* in recordings_count the increments of the recordings of U for L that
\* were committed after that read: at least one per such recording.
C27_ResetKeepsLaterRecordings ==
  [][\A s \in Slots :
       (/\ reqs[s].pc \in ResetSteps
        /\ reqs[s].recordingsAtRead >= 0
        /\ reqs'[s].pc = "idle") =>
         LET r == reqs[s]
             row == progress'[<<r.user_id, r.language>>]
         IN row.present /\
            row.recordings_count >=
              RecordingsOf(r.user_id, r.language) - r.recordingsAtRead]_vars

\* C28: a step of a generate-task request of user U for language L changes
\* no user_task_progress row other than (U, L) and creates no progress row:
\* a row that is absent before the step is absent after it.
C28_RequestTouchesOwnRowOnly ==
  [][\A s \in Slots :
       reqs'[s] # reqs[s] =>
         \A p \in DOMAIN progress :
           /\ p # <<reqs[s].user_id, reqs[s].language>> => progress'[p] = progress[p]
           /\ progress'[p].present = progress[p].present]_vars

\* a request for a language without tasks has returned a task, and the user
\* still has no progress row for that language
C28_Witness ==
  /\ last.response.kind = "task"
  /\ last.taskCount = 0
  /\ last.language = NewLangId
  /\ ~progress[<<last.user_id, NewLangId>>].present

\* C29: when only upsert-language calls with one code and one name have been
\* made, every call that has returned returned the language row with that
\* code, not an error, and there is exactly one row with that code.
C29_SameUpsertsReturnTheRow ==
  (/\ started = 0
   /\ \A j, k \in Upserts : /\ upserts[j].code = upserts[k].code
                            /\ upserts[j].name = upserts[k].name) =>
    \A k \in Upserts :
      (upserts[k].pc = "done" /\ upserts[k].code # "") =>
        /\ upserts[k].result = "ok"
        /\ Cardinality({l \in languages : l.code = upserts[k].code}) = 1
        /\ \E l \in languages : l.code = upserts[k].code /\ l.id = upserts[k].language

\* ---------------------------------------------------------------------------
\* The Chat page of one signed-in user, from the render in which user and
\* language are set: its state hooks, the two loads the page starts, the
\* auto-generate effect and the generate-task requests it sends. The buttons
\* and the recording dialog are left aside.

ChatUser == "u1"

\* useState: messages = [], progress = null, generatingTask = false; the
\* effect on [language, user] has called loadChatHistory() and
\* loadProgress(). messages is the number of task messages; sent, inFlight
\* and autoSent are history: the automatic requests sent, those not answered
\* yet and, per request, whether a history had been loaded and how many
\* tasks the language had when it was sent
NewPage(l) ==
  [language |-> l, messages |-> 0, messagesLoaded |-> FALSE,
   progressSet |-> FALSE, can_generate_next |-> FALSE, generatingTask |-> FALSE,
   historyLoads |-> 1, progressLoads |-> 1,
   sent |-> 0, inFlight |-> 0, autoSent |-> <<>>]

\* the rows of the loadChatHistory query: the tasks of the language
TasksOfLanguage(l) == Cardinality({t \in TaskIds : Task(t).language_id = l})

\* const generateNextTask = async (force = false) => ... up to the invoke
generateNextTask(c, force) ==
  IF ~force /\ c.messages > 0 /\ ~(c.progressSet /\ c.can_generate_next)
  THEN c
  ELSE [c EXCEPT !.generatingTask = TRUE,
                 !.sent = @ + 1,
                 !.inFlight = @ + 1,
                 !.autoSent = Append(@, [loaded |-> c.messagesLoaded,
                                        tasks |-> TasksOfLanguage(c.language)])]

\* useEffect(() => { if (messages.length === 0 && language && user &&
\* !generatingTask && progress !== null) generateNextTask(); },
\* [messages, language, user, progress]), run on the render that follows
\* setMessages or setProgress
AutoGenerateEffect(c) ==
  IF c.messages = 0 /\ ~c.generatingTask /\ c.progressSet
  THEN generateNextTask(c, FALSE)
  ELSE c

\* the variables the page does not write
pageFrame ==
  <<languages, generated, recordings, progress, profiles, openAIApiKey,
    reqs, started, last, genDone, genCount, recSince,
    referrals, refTx, recTx, sia, jobs, upserts, fn>>

\* loadChatHistory's query returns: setMessages(chatMessages), or a toast
ChatHistoryLoaded(ok) ==
  /\ chat.historyLoads > 0
  /\ chat' = IF ok
             THEN AutoGenerateEffect(
                    [chat EXCEPT !.historyLoads = @ - 1,
                                 !.messagesLoaded = TRUE,
                                 !.messages = TasksOfLanguage(chat.language)])
             ELSE [chat EXCEPT !.historyLoads = @ - 1]
  /\ UNCHANGED pageFrame

\* loadProgress's query returns: setProgress(data ?? {0, false}), or a
\* warning
ChatProgressLoaded(ok) ==
  /\ chat.progressLoads > 0
  /\ LET row == progress[<<ChatUser, chat.language>>]
     IN chat' = IF ok
                THEN AutoGenerateEffect(
                       [chat EXCEPT !.progressLoads = @ - 1,
                                    !.progressSet = TRUE,
                                    !.can_generate_next =
                                       row.present /\ row.can_generate_next])
                ELSE [chat EXCEPT !.progressLoads = @ - 1]
  /\ UNCHANGED pageFrame

\* supabase.functions.invoke('generate-task', {language_id: language.id,
\* user_id: user.id, force}) reaches the function
ChatRequestArrives(s) ==
  /\ chat.sent > started
  /\ GenStart(s, ChatUser, chat.language, FALSE)

\* the invoke returns: loadChatHistory() after a task, a toast otherwise,
\* and setGeneratingTask(false) in finally
ChatResponse ==
  /\ chat.inFlight > 0
  /\ started = chat.sent
  /\ \A s \in Slots : reqs[s].pc = "idle"
  /\ chat' = IF last.response.kind = "task"
             THEN [chat EXCEPT !.historyLoads = @ + 1,
                               !.generatingTask = FALSE,
                               !.inFlight = @ - 1]
             ELSE [chat EXCEPT !.generatingTask = FALSE,
                               !.inFlight = @ - 1]
  /\ UNCHANGED pageFrame

\* the page is open on the seed language or on a language without tasks;
\* every user has recorded every starter task
InitChat ==
  /\ languages = {[id |-> SeedLangId, name |-> "Spanish", code |-> "es"],
                  [id |-> NewLangId, name |-> GlottoName, code |-> GlottoCode]}
  /\ generated = <<>>
  /\ recordings = AllUsers \X (1..StarterCount)
  /\ progress = [p \in AllUsers \X LangIds |->
                   StarterDb[<<p[1], {}, StarterCount>>].progress[p]]
  /\ profiles = [u \in AllUsers |-> StarterDb[<<u, {}, StarterCount>>].profiles[u]]
  /\ openAIApiKey \in BOOLEAN
  /\ reqs = [s \in 1..MaxInFlight |-> IdleReq]
  /\ started = 0
  /\ last = IdleReq
  /\ genDone = [p \in Users \X LangIds |-> 0]
  /\ genCount = [p \in Users \X LangIds |-> 0]
  /\ recSince = [p \in Users \X LangIds |-> 0]
  /\ referrals = {}
  /\ refTx = <<>>
  /\ recTx = <<>>
  /\ sia = {}
  /\ jobs = <<>>
  /\ upserts = <<>>
  /\ fn = <<>>
  /\ chat \in {NewPage(l) : l \in LangIds}

NextChat ==
  \/ \E ok \in BOOLEAN : ChatHistoryLoaded(ok)
  \/ \E ok \in BOOLEAN : ChatProgressLoaded(ok)
  \/ \E s \in Slots : ChatRequestArrives(s)
  \/ ChatResponse
  \/ \E s \in Slots : GenStarterCheck(s)
  \/ \E s \in Slots : GenTaskCount(s)
  \/ \E s \in Slots : GenProgressCheck(s)
  \/ \E s \in Slots : GenLoadLanguage(s)
  \/ \E s \in Slots : GenPrepare(s)
  \/ \E s \in Slots : GenCallOpenAI(s)
  \/ \E s \in Slots, d \in Difficulties, ok \in BOOLEAN : GenInsertFallback(s, d, ok)
  \/ \E s \in Slots, d \in Difficulties, ok \in BOOLEAN : GenInsertParseFallback(s, d, ok)
  \/ \E s \in Slots, d \in Difficulties, ok \in BOOLEAN : GenInsertMain(s, d, ok)
  \/ \E s \in Slots : GenResetFallback(s)
  \/ \E s \in Slots : GenResetParseFallback(s)
  \/ \E s \in Slots : GenResetMain(s)

SpecChat == InitChat /\ [][NextChat]_vars

\* C30: every automatic request of the page was sent when a task history had
\* been loaded and the language had no tasks, and at most one automatic
\* request is in flight.
C30_AutoRequestOnlyForEmptyHistory ==
  /\ \A i \in 1..Len(chat.autoSent) :
       chat.autoSent[i].loaded /\ chat.autoSent[i].tasks = 0
  /\ chat.inFlight <= 1

====
